---- MODULE Spec2Model ----
(***************************************************************************)
(* Model of the UIRB core library: the persistent configuration store      *)
(* (EEPROMDataManager), the device facade (UIRB) and the power estimator   *)
(* (PowerInfoData).  Production build: real EEPROM, field-by-field record  *)
(* comparison, AVR_DEBUG undefined, board version 0.2.                     *)
(***************************************************************************)
EXTENDS Integers, Sequences, FiniteSets, TLC

VARIABLES
    pc,                     \* position of the program within one device start
    eeprom,                 \* the record in non-volatile storage
    ram,                    \* EEPROMDataManager::eeprom_core_data_
    initializationResult_,  \* UIRB::initializationResult_
    wdt,                    \* watchdog configuration
    pins,                   \* DDR / PORT bit of every pin the core drives
    power,                  \* the fields of UIRB::powerInfoData_
    sleep,                  \* what powerDown armed and whether the CPU is halted
    last,                   \* the last operation: name, argument, result, state before
    startEeprom,            \* storage as it was when this device start began
    ctorLog,                \* the constructor steps executed in this device start
    saved,                  \* the record handed to the latest save, and whether it verified
    nops,                   \* operations performed so far
    faults,                 \* storage write faults injected so far
    starts                  \* device starts so far

vars == <<pc, eeprom, ram, initializationResult_, wdt, pins, power, sleep,
          last, startEeprom, ctorLog, saved, nops, faults, starts>>

(***************************************************************************)
(* Bounds                                                                  *)
(***************************************************************************)
MaxOps == 2
MaxStoreOps == 2
MaxPersistOps == 3
MaxFaults == 1
MaxStarts == 2

(***************************************************************************)
(* Program constants                                                       *)
(***************************************************************************)
UINT8_MAX == 255
UINT16_MAX == 65535
INT8_MIN == -128
INT8_MAX == 127
UIRB_HW_VER == 2
BANDGAP_NOMINAL_MV == 1100
YEAR_BASE == 2020
YEAR_MAX == 2035
MONTH_MAX == 12
DATA_FACTORY_CP2104_SERIAL_NUM_LEN == 8
INVALID_CHARGER_PROG_RESISTANCE == 1
INVALID_MANUFACTURE_MONTH == 0
INVALID_UIRB_SERIAL_NUMBER == UINT16_MAX
UIRB_SERIAL_NUMBER_MAX == 9999
CHARGER_PROG_RESISTANCE_MIN == 3333
SERIAL_NUMBER_FIELD == 16384

(***************************************************************************)
(* Fixed-width arithmetic.  The 32-bit intermediates of the measurement    *)
(* formulas stay below 65535 * 1000 and cannot wrap.                       *)
(***************************************************************************)
U8(x) == x % 256
U16(x) == x % 65536

\* uint32_t values are kept as two 16-bit limbs <<high, low>>
UINT32_MAX == <<65535, 65535>>
U32_of(n) == <<0, n>>
U32_inc(x) == IF x[2] = UINT16_MAX THEN <<U16(x[1] + 1), 0>> ELSE <<x[1], x[2] + 1>>
U32_less(x, y) == x[1] < y[1] \/ (x[1] = y[1] /\ x[2] < y[2])

ToInt8(x) == IF U8(x) >= 128 THEN U8(x) - 256 ELSE U8(x)

\* bit i of byte b
BitOf(b, i) == (b \div (2 ^ i)) % 2

\* byte b with bit i replaced by v (0 or 1)
WithBit(b, i, v) == b - BitOf(b, i) * (2 ^ i) + v * (2 ^ i)

BoolBit(f) == IF f THEN 1 ELSE 0

(***************************************************************************)
(* EEPROMData.  The bitfield unions are kept as the bytes they overlay.    *)
(* SerialNumber: the 14-bit number lives in serial_number_u16; the nested  *)
(* union holding reserved_bit_0 / reserved_bit_1 is not a bit-field, so it *)
(* starts on the next byte and lies outside serial_number_u16.             *)
(***************************************************************************)
ZeroSerial == [i \in 1..DATA_FACTORY_CP2104_SERIAL_NUM_LEN |-> 0]

ZeroRecord ==
    [ version_byte |-> 0,
      bandgap_1v1_reference_offset |-> 0,
      stat_led_brightness |-> 0,
      charger_prog_resistor_ohms |-> 0,
      config_byte |-> 0,
      month_year_byte |-> 0,
      boot_count |-> U32_of(0),
      serial_number_u16 |-> 0,
      reserved |-> 0,
      factory_cp2104_usb_serial_number |-> ZeroSerial ]

\* SoftwareConfig bit positions
AVR_SERIAL_DEBUGGER_BIT == 0
SLEEP_MODE_ALLOWED_BIT == 1
SLEEP_MODE_IO3_WAKEUP_BIT == 2
BOOT_COUNT_INCREMENT_BIT == 3

\* SerialNumber members
SerialNumber_number(d) == d.serial_number_u16 % SERIAL_NUMBER_FIELD
SerialNumber_reserved_bit_0(d) == BitOf(d.reserved, 0)
SerialNumber_reserved_bit_1(d) == BitOf(d.reserved, 1)

\* HardwareManufactureDate members
Date_year_offset_from_2020(d) == d.month_year_byte % 16
Date_month(d) == d.month_year_byte \div 16

(***************************************************************************)
(* operator==(EEPROMData, EEPROMData), field by field                      *)
(***************************************************************************)
EEPROMData_eq(lhs, rhs) ==
    /\ lhs.version_byte = rhs.version_byte
    /\ lhs.bandgap_1v1_reference_offset = rhs.bandgap_1v1_reference_offset
    /\ lhs.stat_led_brightness = rhs.stat_led_brightness
    /\ lhs.charger_prog_resistor_ohms = rhs.charger_prog_resistor_ohms
    /\ lhs.config_byte = rhs.config_byte
    /\ lhs.month_year_byte = rhs.month_year_byte
    /\ lhs.boot_count = rhs.boot_count
    /\ lhs.serial_number_u16 = rhs.serial_number_u16
    /\ \A i \in 1..DATA_FACTORY_CP2104_SERIAL_NUM_LEN :
          lhs.factory_cp2104_usb_serial_number[i] = rhs.factory_cp2104_usb_serial_number[i]

(***************************************************************************)
(* EEPROMDataManager accessors.  A setter is a function from the RAM       *)
(* mirror and its argument to the returned value and the new mirror.       *)
(***************************************************************************)
Ret(r, d) == [ret |-> r, data |-> d]

hardware_version_matches_always(d) == TRUE

hardware_version_matches(d) == d.version_byte = UIRB_HW_VER

get_bandgap_reference_milivolts(d) ==
    U16(BANDGAP_NOMINAL_MV + d.bandgap_1v1_reference_offset)

set_bandgap_reference_milivolts_strict(d, milivolts) ==
    IF milivolts <= U16(BANDGAP_NOMINAL_MV + INT8_MIN) \/ milivolts > U16(BANDGAP_NOMINAL_MV + INT8_MAX)
    THEN Ret(FALSE, d)
    ELSE Ret(TRUE, [d EXCEPT !.bandgap_1v1_reference_offset =
                                 ToInt8(U16(milivolts - BANDGAP_NOMINAL_MV))])

set_bandgap_reference_milivolts(d, milivolts) ==
    IF milivolts < U16(BANDGAP_NOMINAL_MV + INT8_MIN) \/ milivolts > U16(BANDGAP_NOMINAL_MV + INT8_MAX)
    THEN Ret(FALSE, d)
    ELSE Ret(TRUE, [d EXCEPT !.bandgap_1v1_reference_offset =
                                 ToInt8(U16(milivolts - BANDGAP_NOMINAL_MV))])

get_stat_led_brightness(d) == d.stat_led_brightness

set_stat_led_brightness(d, brightness) == [d EXCEPT !.stat_led_brightness = brightness]

get_charger_prog_resistor_ohms_accepting_minimum(d) ==
    IF d.charger_prog_resistor_ohms < CHARGER_PROG_RESISTANCE_MIN
    THEN INVALID_CHARGER_PROG_RESISTANCE
    ELSE d.charger_prog_resistor_ohms

get_charger_prog_resistor_ohms(d) ==
    IF d.charger_prog_resistor_ohms <= CHARGER_PROG_RESISTANCE_MIN
    THEN INVALID_CHARGER_PROG_RESISTANCE
    ELSE d.charger_prog_resistor_ohms

set_charger_prog_resistor_ohms(d, ohms) ==
    IF ohms < CHARGER_PROG_RESISTANCE_MIN
    THEN Ret(FALSE, d)
    ELSE Ret(TRUE, [d EXCEPT !.charger_prog_resistor_ohms = ohms])

is_avr_serial_debugger_enabled(d) == BitOf(d.config_byte, AVR_SERIAL_DEBUGGER_BIT) = 1

set_avr_serial_debugger(d, enabled) ==
    [d EXCEPT !.config_byte = WithBit(@, AVR_SERIAL_DEBUGGER_BIT, BoolBit(enabled))]

is_sleep_mode_allowed(d) == BitOf(d.config_byte, SLEEP_MODE_ALLOWED_BIT) = 1

allow_sleep_mode(d, allowed) ==
    [d EXCEPT !.config_byte = WithBit(@, SLEEP_MODE_ALLOWED_BIT, BoolBit(allowed))]

is_sleep_mode_io3_wakeup_allowed(d) == BitOf(d.config_byte, SLEEP_MODE_IO3_WAKEUP_BIT) = 1

allow_sleep_mode_io3_wakeup(d, allowed) ==
    [d EXCEPT !.config_byte = WithBit(@, SLEEP_MODE_IO3_WAKEUP_BIT, BoolBit(allowed))]

is_boot_count_increment_allowed(d) == BitOf(d.config_byte, BOOT_COUNT_INCREMENT_BIT) = 1

allow_boot_count_increment(d, allowed) ==
    [d EXCEPT !.config_byte = WithBit(@, BOOT_COUNT_INCREMENT_BIT, BoolBit(allowed))]

get_board_manufacture_year(d) == U16(YEAR_BASE + Date_year_offset_from_2020(d))

set_board_manufacture_year(d, year) ==
    IF year < YEAR_BASE \/ year > YEAR_MAX
    THEN Ret(FALSE, d)
    ELSE Ret(TRUE, [d EXCEPT !.month_year_byte =
                                 Date_month(d) * 16 + (U8(year - YEAR_BASE) % 16)])

get_board_manufacture_month(d) ==
    IF Date_month(d) <= MONTH_MAX THEN Date_month(d) ELSE INVALID_MANUFACTURE_MONTH

set_board_manufacture_month_no_lower_check(d, month) ==
    IF month > MONTH_MAX
    THEN Ret(FALSE, d)
    ELSE Ret(TRUE, [d EXCEPT !.month_year_byte =
                                 (month % 16) * 16 + Date_year_offset_from_2020(d)])

set_board_manufacture_month(d, month) ==
    IF month < 1 \/ month > MONTH_MAX
    THEN Ret(FALSE, d)
    ELSE Ret(TRUE, [d EXCEPT !.month_year_byte =
                                 (month % 16) * 16 + Date_year_offset_from_2020(d)])

get_boot_count(d) == d.boot_count

set_boot_count(d, boot_count) == [d EXCEPT !.boot_count = boot_count]

increment_boot_count_wrapping(d) ==
    IF ~is_boot_count_increment_allowed(d)
    THEN Ret(FALSE, d)
    ELSE Ret(TRUE, [d EXCEPT !.boot_count = U32_inc(@)])

increment_boot_count_twice(d) ==
    IF ~is_boot_count_increment_allowed(d) \/ d.boot_count = UINT32_MAX
    THEN Ret(FALSE, d)
    ELSE Ret(TRUE, [d EXCEPT !.boot_count = U32_inc(U32_inc(@))])

increment_boot_count(d) ==
    IF ~is_boot_count_increment_allowed(d) \/ d.boot_count = UINT32_MAX
    THEN Ret(FALSE, d)
    ELSE Ret(TRUE, [d EXCEPT !.boot_count = U32_inc(@)])

get_uirb_board_serial_number_ignoring_flag(d) ==
    IF SerialNumber_number(d) > UIRB_SERIAL_NUMBER_MAX
    THEN INVALID_UIRB_SERIAL_NUMBER
    ELSE SerialNumber_number(d)

get_uirb_board_serial_number(d) ==
    IF SerialNumber_reserved_bit_1(d) = 1 \/ SerialNumber_number(d) > UIRB_SERIAL_NUMBER_MAX
    THEN INVALID_UIRB_SERIAL_NUMBER
    ELSE SerialNumber_number(d)

set_uirb_board_serial_number(d, serial_number) ==
    IF serial_number = 0 \/ serial_number > UIRB_SERIAL_NUMBER_MAX
    THEN Ret(FALSE, d)
    ELSE Ret(TRUE, [d EXCEPT !.serial_number_u16 =
                                 (@ \div SERIAL_NUMBER_FIELD) * SERIAL_NUMBER_FIELD
                                   + (serial_number % SERIAL_NUMBER_FIELD)])

(***************************************************************************)
(* Non-volatile storage.  EEPROM.get copies the whole record; EEPROM.put   *)
(* writes it cell by cell, and a worn or interrupted cell write leaves the *)
(* old record (write lost) or a record altered in one field.               *)
(***************************************************************************)
read_from_eeprom(storage) == storage

AlteredSerial(d) ==
    { [d EXCEPT !.factory_cp2104_usb_serial_number[i] = U8(@ + 1)] :
          i \in 1..DATA_FACTORY_CP2104_SERIAL_NUM_LEN }

AlteredScalar(d) ==
    { [d EXCEPT !.version_byte = U8(@ + 1)],
      [d EXCEPT !.bandgap_1v1_reference_offset = ToInt8(@ + 1)],
      [d EXCEPT !.stat_led_brightness = U8(@ + 1)],
      [d EXCEPT !.charger_prog_resistor_ohms = U16(@ + 1)],
      [d EXCEPT !.config_byte = U8(@ + 16)],
      [d EXCEPT !.month_year_byte = U8(@ + 1)],
      [d EXCEPT !.boot_count = U32_inc(@)],
      [d EXCEPT !.serial_number_u16 = U16(@ + 1)],
      [d EXCEPT !.reserved = (@ + 2) % 4] }

\* alterations the verification detects (resistor) and misses (reserved bits)
AlteredFew(d) ==
    { [d EXCEPT !.charger_prog_resistor_ohms = U16(@ + 1)],
      [d EXCEPT !.reserved = (@ + 2) % 4] }

\* the records storage may hold after a faulty write of data over old: the write
\* lost, or one field altered (every field when full, two representative ones
\* otherwise)
FaultyWrites(old, data, full) ==
    ({old} \cup (IF full THEN AlteredScalar(data) \cup AlteredSerial(data)
                         ELSE AlteredFew(data))) \ {data}

\* EEPROM.put: the record storage holds afterwards
EEPROM_put(old, data, fault, full) ==
    IF fault THEN FaultyWrites(old, data, full) ELSE {data}

\* store_to_eeprom: the value returned once storage holds `stored`
store_to_eeprom(stored, data) == EEPROMData_eq(read_from_eeprom(stored), data)

\* load_from_eeprom: the new RAM mirror
load_from_eeprom(storage) == read_from_eeprom(storage)

(***************************************************************************)
(* Pins (Arduino core semantics of pinMode / digitalWrite / digitalRead)   *)
(***************************************************************************)
INPUT == 0
OUTPUT == 1
INPUT_PULLUP == 2
INVALID_PIN_MODE == 255
LOW == 0
HIGH == 1

PinNames ==
    { "PIN_IR_LED", "PIN_STAT_LED", "PIN_PROG", "PIN_PULLDOWN_RESISTOR", "PIN_USB_IO3",
      "PIN_BUTTON_OPTION_1", "PIN_BUTTON_OPTION_2", "PIN_BUTTON_OPTION_3",
      "PIN_BUTTON_WAKEUP" }

ResetPins == [p \in PinNames |-> [ddr |-> 0, port |-> 0]]

pinMode(ps, pin, mode) ==
    IF mode = INPUT THEN [ps EXCEPT ![pin] = [ddr |-> 0, port |-> 0]]
    ELSE IF mode = INPUT_PULLUP THEN [ps EXCEPT ![pin] = [ddr |-> 0, port |-> 1]]
    ELSE [ps EXCEPT ![pin].ddr = 1]

digitalWrite(ps, pin, val) == [ps EXCEPT ![pin].port = IF val = LOW THEN 0 ELSE 1]

\* level read on a pin: the driven level of an output, the external level of an input
digitalRead(ps, pin, external) == IF ps[pin].ddr = 1 THEN ps[pin].port ELSE external

getPinMode(ps, pin) ==
    IF ps[pin].ddr = 1 THEN OUTPUT
    ELSE IF ps[pin].port = 1 THEN INPUT_PULLUP
    ELSE INPUT

\* the pin states the constructor applies
DefaultPinStates(ps) ==
    LET p1 == digitalWrite(pinMode(ps, "PIN_IR_LED", OUTPUT), "PIN_IR_LED", LOW)
        p2 == digitalWrite(pinMode(p1, "PIN_STAT_LED", OUTPUT), "PIN_STAT_LED", HIGH)
        p3 == pinMode(p2, "PIN_PROG", INPUT)
        p4 == pinMode(p3, "PIN_PULLDOWN_RESISTOR", INPUT)
        p5 == pinMode(p4, "PIN_USB_IO3", INPUT_PULLUP)
        p6 == pinMode(p5, "PIN_BUTTON_OPTION_1", INPUT_PULLUP)
        p7 == pinMode(p6, "PIN_BUTTON_OPTION_2", INPUT_PULLUP)
        p8 == pinMode(p7, "PIN_BUTTON_OPTION_3", INPUT_PULLUP)
    IN  pinMode(p8, "PIN_BUTTON_WAKEUP", INPUT_PULLUP)

(***************************************************************************)
(* Power estimator                                                         *)
(***************************************************************************)
INVALID_CURRENT_MILIAMPS == UINT16_MAX
INVALID_VOLTAGE_MILIVOLTS == UINT16_MAX
UNKNOWN_CURRENT_MILIAMPS == INVALID_CURRENT_MILIAMPS - 1
INVALID_PROG_RESISTOR_RESISTANCE == INVALID_CHARGER_PROG_RESISTANCE
AVCC_MILIVOLTS_8MHZ_MIN == 2700
AVCC_MILIVOLTS_ABSOLUTE_MAX == 6000
ADC_RESOLUTION_DEC == 1024
ADC_SAMPLE_MAX == ADC_RESOLUTION_DEC - 1
ADC_BANDGAP_AVCC_SAMPLE_MIN == 160
PROG_CC_CHARGE_VOLTAGE_MAX_MV == 1100
PROG_CC_CHARGE_VOLTAGE_MIN_MV == 900
PROG_CV_CHARGE_VOLTAGE_MIN_MV == 100
PROG_FLOAT_VOLTAGE_MAX_MV == 15
FULLY_CHARGED_SUPPLY_VOLTAGE_MIN_MV == 4150
FLOAT_VOLTAGE_RECHARGE_DELTA_MV == 150
FLOAT_VOLTAGE_RECHARGE_MIN_MV == FULLY_CHARGED_SUPPLY_VOLTAGE_MIN_MV - FLOAT_VOLTAGE_RECHARGE_DELTA_MV
BATTERY_EMPTY_SUPPLY_VOLTAGE_MIN_MV == 3400
DEFAULT_SAMPLES == 5

\* the analog references a measurement can use
AREF_DEFAULT == 1
AREF_INTERNAL1V1 == 3

InitPower ==
    [ supply_voltage_milivolts_ |-> UINT16_MAX,
      prog_voltage_milivolts_ |-> UINT16_MAX,
      charging_current_miliamps_ |-> UINT16_MAX,
      prog_pin_mode_ |-> 255,
      prog_pin_state_ |-> FALSE,
      estimated_charger_state_ |-> "ERROR",
      estimated_battery_state_ |-> "ERROR" ]

\* UIRB::getSupplyVoltageMilivolts, given the averaged raw bandgap sample
getSupplyVoltageMilivolts(d, samples, result_avcc_raw) ==
    IF samples = 0 \/ result_avcc_raw <= ADC_BANDGAP_AVCC_SAMPLE_MIN
                   \/ result_avcc_raw > ADC_RESOLUTION_DEC - 1
    THEN INVALID_VOLTAGE_MILIVOLTS
    ELSE U16(((ADC_RESOLUTION_DEC * get_bandgap_reference_milivolts(d))
                   + (result_avcc_raw \div 2)) \div result_avcc_raw)

\* get_raw_prog_adc_sample: the sample and the reference that produced it
get_raw_prog_adc_sample(sample_1v1, sample_avcc) ==
    IF sample_1v1 = ADC_SAMPLE_MAX
    THEN [raw |-> sample_avcc, adcReference |-> AREF_DEFAULT]
    ELSE [raw |-> sample_1v1, adcReference |-> AREF_INTERNAL1V1]

\* UIRB::getProgVoltageMilivolts, given the raw samples of this measurement
getProgVoltageMilivolts(d, samples, sample_1v1, sample_avcc, avcc_raw) ==
    LET s == get_raw_prog_adc_sample(sample_1v1, sample_avcc)
        reference_voltage_milivolts ==
            IF s.adcReference = AREF_DEFAULT
            THEN getSupplyVoltageMilivolts(d, DEFAULT_SAMPLES, avcc_raw)
            ELSE get_bandgap_reference_milivolts(d)
    IN  IF samples = 0 THEN INVALID_VOLTAGE_MILIVOLTS
        ELSE IF s.adcReference = AREF_DEFAULT
                /\ ( reference_voltage_milivolts = INVALID_VOLTAGE_MILIVOLTS
                     \/ reference_voltage_milivolts > AVCC_MILIVOLTS_ABSOLUTE_MAX
                     \/ reference_voltage_milivolts < AVCC_MILIVOLTS_8MHZ_MIN )
        THEN INVALID_VOLTAGE_MILIVOLTS
        ELSE U16(((s.raw * reference_voltage_milivolts) + (ADC_RESOLUTION_DEC \div 2))
                   \div ADC_RESOLUTION_DEC)

\* the PROG pin after get_raw_prog_adc_sample: the level read before sampling is
\* what the code hands back to pinMode
ProgPinAfterSample(ps, external) ==
    LET oldPinMode == digitalRead(ps, "PIN_PROG", external)
        sampled == pinMode(digitalWrite(ps, "PIN_IR_LED", LOW), "PIN_PROG", INPUT)
    IN  IF oldPinMode # INPUT THEN pinMode(sampled, "PIN_PROG", oldPinMode) ELSE sampled

prog_milivolts_to_charging_current_miliamps_output_unknown(prog_milivolts, prog_resistor_ohms, prog_pin_mode, prog_pin_state) ==
    IF prog_milivolts = INVALID_VOLTAGE_MILIVOLTS
       \/ prog_resistor_ohms = INVALID_PROG_RESISTOR_RESISTANCE
       \/ prog_resistor_ohms = 0 \/ prog_pin_mode = INVALID_PIN_MODE
    THEN INVALID_CURRENT_MILIAMPS
    ELSE IF prog_pin_mode = OUTPUT \/ prog_pin_mode = INPUT_PULLUP
    THEN UNKNOWN_CURRENT_MILIAMPS
    ELSE IF prog_pin_mode # INPUT
    THEN INVALID_CURRENT_MILIAMPS
    ELSE IF prog_milivolts > PROG_CC_CHARGE_VOLTAGE_MAX_MV \/ prog_milivolts < PROG_FLOAT_VOLTAGE_MAX_MV
    THEN 0
    ELSE LET charging_current_miliamps == (prog_milivolts * 1000) \div prog_resistor_ohms
         IN  U16(IF charging_current_miliamps = 0 THEN 1 ELSE charging_current_miliamps)

prog_milivolts_to_charging_current_miliamps_unclamped(prog_milivolts, prog_resistor_ohms, prog_pin_mode, prog_pin_state) ==
    IF prog_milivolts = INVALID_VOLTAGE_MILIVOLTS
       \/ prog_resistor_ohms = INVALID_PROG_RESISTOR_RESISTANCE
       \/ prog_resistor_ohms = 0 \/ prog_pin_mode = INVALID_PIN_MODE
    THEN INVALID_CURRENT_MILIAMPS
    ELSE IF prog_pin_mode = OUTPUT
    THEN (IF prog_pin_state THEN 0 ELSE UNKNOWN_CURRENT_MILIAMPS)
    ELSE IF prog_pin_mode = INPUT_PULLUP
    THEN UNKNOWN_CURRENT_MILIAMPS
    ELSE IF prog_pin_mode # INPUT
    THEN INVALID_CURRENT_MILIAMPS
    ELSE IF prog_milivolts > PROG_CC_CHARGE_VOLTAGE_MAX_MV \/ prog_milivolts < PROG_FLOAT_VOLTAGE_MAX_MV
    THEN 0
    ELSE U16((prog_milivolts * 1000) \div prog_resistor_ohms)

prog_milivolts_to_charging_current_miliamps_edges_excluded(prog_milivolts, prog_resistor_ohms, prog_pin_mode, prog_pin_state) ==
    IF prog_milivolts = INVALID_VOLTAGE_MILIVOLTS
       \/ prog_resistor_ohms = INVALID_PROG_RESISTOR_RESISTANCE
       \/ prog_resistor_ohms = 0 \/ prog_pin_mode = INVALID_PIN_MODE
    THEN INVALID_CURRENT_MILIAMPS
    ELSE IF prog_pin_mode = OUTPUT
    THEN (IF prog_pin_state THEN 0 ELSE UNKNOWN_CURRENT_MILIAMPS)
    ELSE IF prog_pin_mode = INPUT_PULLUP
    THEN UNKNOWN_CURRENT_MILIAMPS
    ELSE IF prog_pin_mode # INPUT
    THEN INVALID_CURRENT_MILIAMPS
    ELSE IF prog_milivolts >= PROG_CC_CHARGE_VOLTAGE_MAX_MV \/ prog_milivolts <= PROG_FLOAT_VOLTAGE_MAX_MV
    THEN 0
    ELSE LET charging_current_miliamps == (prog_milivolts * 1000) \div prog_resistor_ohms
         IN  U16(IF charging_current_miliamps = 0 THEN 1 ELSE charging_current_miliamps)

prog_milivolts_to_charging_current_miliamps(prog_milivolts, prog_resistor_ohms, prog_pin_mode, prog_pin_state) ==
    IF prog_milivolts = INVALID_VOLTAGE_MILIVOLTS
       \/ prog_resistor_ohms = INVALID_PROG_RESISTOR_RESISTANCE
       \/ prog_resistor_ohms = 0 \/ prog_pin_mode = INVALID_PIN_MODE
    THEN INVALID_CURRENT_MILIAMPS
    ELSE IF prog_pin_mode = OUTPUT
    THEN (IF prog_pin_state THEN 0 ELSE UNKNOWN_CURRENT_MILIAMPS)
    ELSE IF prog_pin_mode = INPUT_PULLUP
    THEN UNKNOWN_CURRENT_MILIAMPS
    ELSE IF prog_pin_mode # INPUT
    THEN INVALID_CURRENT_MILIAMPS
    ELSE IF prog_milivolts > PROG_CC_CHARGE_VOLTAGE_MAX_MV \/ prog_milivolts < PROG_FLOAT_VOLTAGE_MAX_MV
    THEN 0
    ELSE LET charging_current_miliamps == (prog_milivolts * 1000) \div prog_resistor_ohms
         IN  U16(IF charging_current_miliamps = 0 THEN 1 ELSE charging_current_miliamps)

isBatteryCharging(p) ==
    p.estimated_charger_state_ = "CHARGING_CV" \/ p.estimated_charger_state_ = "CHARGING_CC"

isBatteryFull(p) ==
    IF p.supply_voltage_milivolts_ = INVALID_VOLTAGE_MILIVOLTS THEN FALSE
    ELSE p.supply_voltage_milivolts_ >= FLOAT_VOLTAGE_RECHARGE_MIN_MV

\* isBatteryLow(false): the returned value
isBatteryLow(p) ==
    IF p.supply_voltage_milivolts_ = INVALID_VOLTAGE_MILIVOLTS THEN TRUE
    ELSE p.supply_voltage_milivolts_ < BATTERY_EMPTY_SUPPLY_VOLTAGE_MIN_MV

get_estimated_charger_state_windows_first(p) ==
    IF p.charging_current_miliamps_ = INVALID_CURRENT_MILIAMPS
       \/ p.prog_voltage_milivolts_ = INVALID_VOLTAGE_MILIVOLTS
       \/ p.supply_voltage_milivolts_ = INVALID_VOLTAGE_MILIVOLTS
    THEN "ERROR"
    ELSE IF p.prog_voltage_milivolts_ >= PROG_CC_CHARGE_VOLTAGE_MIN_MV
    THEN (IF p.supply_voltage_milivolts_ >= FULLY_CHARGED_SUPPLY_VOLTAGE_MIN_MV
          THEN "UNKNOWN" ELSE "CHARGING_CC")
    ELSE IF p.prog_voltage_milivolts_ >= PROG_CV_CHARGE_VOLTAGE_MIN_MV
    THEN (IF p.supply_voltage_milivolts_ <= FLOAT_VOLTAGE_RECHARGE_MIN_MV
          THEN "UNKNOWN" ELSE "CHARGING_CV")
    ELSE IF p.supply_voltage_milivolts_ >= FLOAT_VOLTAGE_RECHARGE_MIN_MV
    THEN "FLOATING"
    ELSE IF p.charging_current_miliamps_ = 0
    THEN "TURNED_OFF"
    ELSE "UNKNOWN"

get_estimated_charger_state_cv_at_threshold(p) ==
    IF p.charging_current_miliamps_ = INVALID_CURRENT_MILIAMPS
       \/ p.prog_voltage_milivolts_ = INVALID_VOLTAGE_MILIVOLTS
       \/ p.supply_voltage_milivolts_ = INVALID_VOLTAGE_MILIVOLTS
    THEN "ERROR"
    ELSE IF p.charging_current_miliamps_ = UNKNOWN_CURRENT_MILIAMPS
    THEN "UNKNOWN"
    ELSE IF p.prog_voltage_milivolts_ >= PROG_CC_CHARGE_VOLTAGE_MIN_MV
    THEN (IF p.supply_voltage_milivolts_ >= FULLY_CHARGED_SUPPLY_VOLTAGE_MIN_MV
          THEN "UNKNOWN" ELSE "CHARGING_CC")
    ELSE IF p.prog_voltage_milivolts_ >= PROG_CV_CHARGE_VOLTAGE_MIN_MV
    THEN (IF p.supply_voltage_milivolts_ < FLOAT_VOLTAGE_RECHARGE_MIN_MV
          THEN "UNKNOWN" ELSE "CHARGING_CV")
    ELSE IF p.supply_voltage_milivolts_ >= FLOAT_VOLTAGE_RECHARGE_MIN_MV
    THEN "FLOATING"
    ELSE IF p.charging_current_miliamps_ = 0
    THEN "TURNED_OFF"
    ELSE "UNKNOWN"

get_estimated_charger_state(p) ==
    IF p.charging_current_miliamps_ = INVALID_CURRENT_MILIAMPS
       \/ p.prog_voltage_milivolts_ = INVALID_VOLTAGE_MILIVOLTS
       \/ p.supply_voltage_milivolts_ = INVALID_VOLTAGE_MILIVOLTS
    THEN "ERROR"
    ELSE IF p.charging_current_miliamps_ = UNKNOWN_CURRENT_MILIAMPS
    THEN "UNKNOWN"
    ELSE IF p.prog_voltage_milivolts_ >= PROG_CC_CHARGE_VOLTAGE_MIN_MV
    THEN (IF p.supply_voltage_milivolts_ >= FULLY_CHARGED_SUPPLY_VOLTAGE_MIN_MV
          THEN "UNKNOWN" ELSE "CHARGING_CC")
    ELSE IF p.prog_voltage_milivolts_ >= PROG_CV_CHARGE_VOLTAGE_MIN_MV
    THEN (IF p.supply_voltage_milivolts_ <= FLOAT_VOLTAGE_RECHARGE_MIN_MV
          THEN "UNKNOWN" ELSE "CHARGING_CV")
    ELSE IF p.supply_voltage_milivolts_ >= FLOAT_VOLTAGE_RECHARGE_MIN_MV
    THEN "FLOATING"
    ELSE IF p.charging_current_miliamps_ = 0
    THEN "TURNED_OFF"
    ELSE "UNKNOWN"

get_estimated_battery_state_not_charging_first(p) ==
    IF p.supply_voltage_milivolts_ = INVALID_VOLTAGE_MILIVOLTS
       \/ p.estimated_charger_state_ = "ERROR"
    THEN "ERROR"
    ELSE IF isBatteryCharging(p)
    THEN "CHARGING"
    ELSE IF p.estimated_charger_state_ = "FLOATING" \/ isBatteryFull(p)
    THEN "FULLY_CHARGED"
    ELSE IF p.estimated_charger_state_ = "TURNED_OFF" /\ ~isBatteryFull(p)
    THEN "NOT_CHARGING"
    ELSE IF isBatteryLow(p)
    THEN "EMPTY"
    ELSE "UNKNOWN"

get_estimated_battery_state(p) ==
    IF p.supply_voltage_milivolts_ = INVALID_VOLTAGE_MILIVOLTS
       \/ p.estimated_charger_state_ = "ERROR"
    THEN "ERROR"
    ELSE IF isBatteryCharging(p)
    THEN "CHARGING"
    ELSE IF p.estimated_charger_state_ = "FLOATING" \/ isBatteryFull(p)
    THEN "FULLY_CHARGED"
    ELSE IF isBatteryLow(p)
    THEN "EMPTY"
    ELSE IF p.estimated_charger_state_ = "TURNED_OFF" /\ ~isBatteryFull(p)
    THEN "NOT_CHARGING"
    ELSE "UNKNOWN"

\* the measurements of one update: raw ADC codes and the external level on PROG
EnvSamples ==
    [ avcc_raw : {100, 274},
      sample_1v1 : {466, 1023},
      sample_avcc : {260},
      avcc_raw2 : {274},
      external : {0, 1} ]

PowerInfoData_sample_reclassifying_always(p, d, ps, samples, e) ==
    LET supply == getSupplyVoltageMilivolts(d, samples, e.avcc_raw)
        prog == getProgVoltageMilivolts(d, samples, e.sample_1v1, e.sample_avcc, e.avcc_raw2)
        ps2 == ProgPinAfterSample(ps, e.external)
        mode == getPinMode(ps2, "PIN_PROG")
        valid1 == /\ supply # INVALID_VOLTAGE_MILIVOLTS
                  /\ prog # INVALID_VOLTAGE_MILIVOLTS
                  /\ mode # INVALID_PIN_MODE
        state == digitalRead(ps2, "PIN_PROG", e.external) = 1
        current == prog_milivolts_to_charging_current_miliamps(
                       prog, get_charger_prog_resistor_ohms(d), mode, state)
        valid2 == valid1 /\ current # INVALID_CURRENT_MILIAMPS
        p1 == [p EXCEPT !.supply_voltage_milivolts_ = supply,
                        !.prog_voltage_milivolts_ = prog,
                        !.prog_pin_mode_ = mode]
        p2 == IF valid1
              THEN [p1 EXCEPT !.prog_pin_state_ = state, !.charging_current_miliamps_ = current]
              ELSE p1
        p3 == [p2 EXCEPT !.estimated_charger_state_ = get_estimated_charger_state(p2)]
        p4 == [p3 EXCEPT !.estimated_battery_state_ = get_estimated_battery_state(p3)]
    IN  [ret |-> valid2, power |-> p4, pins |-> ps2]

PowerInfoData_sample_classifying_old_cache(p, d, ps, samples, e) ==
    LET supply == getSupplyVoltageMilivolts(d, samples, e.avcc_raw)
        prog == getProgVoltageMilivolts(d, samples, e.sample_1v1, e.sample_avcc, e.avcc_raw2)
        ps2 == ProgPinAfterSample(ps, e.external)
        mode == getPinMode(ps2, "PIN_PROG")
        valid1 == /\ supply # INVALID_VOLTAGE_MILIVOLTS
                  /\ prog # INVALID_VOLTAGE_MILIVOLTS
                  /\ mode # INVALID_PIN_MODE
        state == digitalRead(ps2, "PIN_PROG", e.external) = 1
        current == prog_milivolts_to_charging_current_miliamps(
                       prog, get_charger_prog_resistor_ohms(d), mode, state)
        valid2 == valid1 /\ current # INVALID_CURRENT_MILIAMPS
        p1 == [p EXCEPT !.supply_voltage_milivolts_ = supply,
                        !.prog_voltage_milivolts_ = prog,
                        !.prog_pin_mode_ = mode]
        p2 == IF valid1
              THEN [p1 EXCEPT !.prog_pin_state_ = state, !.charging_current_miliamps_ = current]
              ELSE p1
        p3 == IF valid2
              THEN [p2 EXCEPT !.estimated_charger_state_ = get_estimated_charger_state(p)]
              ELSE p2
        p4 == IF valid2
              THEN [p3 EXCEPT !.estimated_battery_state_ = get_estimated_battery_state(p3)]
              ELSE p3
    IN  [ret |-> valid2, power |-> p4, pins |-> ps2]

\* PowerInfoData::update past its guard
PowerInfoData_sample(p, d, ps, samples, e) ==
    LET supply == getSupplyVoltageMilivolts(d, samples, e.avcc_raw)
        prog == getProgVoltageMilivolts(d, samples, e.sample_1v1, e.sample_avcc, e.avcc_raw2)
        ps2 == ProgPinAfterSample(ps, e.external)
        mode == getPinMode(ps2, "PIN_PROG")
        valid1 == /\ supply # INVALID_VOLTAGE_MILIVOLTS
                  /\ prog # INVALID_VOLTAGE_MILIVOLTS
                  /\ mode # INVALID_PIN_MODE
        state == digitalRead(ps2, "PIN_PROG", e.external) = 1
        current == prog_milivolts_to_charging_current_miliamps(
                       prog, get_charger_prog_resistor_ohms(d), mode, state)
        valid2 == valid1 /\ current # INVALID_CURRENT_MILIAMPS
        p1 == [p EXCEPT !.supply_voltage_milivolts_ = supply,
                        !.prog_voltage_milivolts_ = prog,
                        !.prog_pin_mode_ = mode]
        p2 == IF valid1
              THEN [p1 EXCEPT !.prog_pin_state_ = state, !.charging_current_miliamps_ = current]
              ELSE p1
        p3 == IF valid2
              THEN [p2 EXCEPT !.estimated_charger_state_ = get_estimated_charger_state(p2)]
              ELSE p2
        p4 == IF valid2
              THEN [p3 EXCEPT !.estimated_battery_state_ = get_estimated_battery_state(p3)]
              ELSE p3
    IN  [ret |-> valid2, power |-> p4, pins |-> ps2]

PowerInfoData_update_unguarded(p, d, ps, initResult, samples, e) ==
    IF samples = 0
    THEN [ret |-> FALSE, power |-> p, pins |-> ps]
    ELSE PowerInfoData_sample(p, d, ps, samples, e)

PowerInfoData_update(p, d, ps, initResult, samples, e) ==
    IF initResult # "SUCCESS" \/ samples = 0
    THEN [ret |-> FALSE, power |-> p, pins |-> ps]
    ELSE PowerInfoData_sample(p, d, ps, samples, e)

(***************************************************************************)
(* Records the model starts from                                           *)
(***************************************************************************)
FactorySerial == <<85, 73, 82, 66, 48, 48, 48, 49>>

FactoryRecord ==
    [ version_byte |-> UIRB_HW_VER,
      bandgap_1v1_reference_offset |-> 0,
      stat_led_brightness |-> 128,
      charger_prog_resistor_ohms |-> 5000,
      config_byte |-> 10,
      month_year_byte |-> 100,
      boot_count |-> U32_of(41),
      serial_number_u16 |-> 1234,
      reserved |-> 0,
      factory_cp2104_usb_serial_number |-> FactorySerial ]

\* what storage may hold when the device starts
BootRecords ==
    { [FactoryRecord EXCEPT !.version_byte = v, !.charger_prog_resistor_ohms = r,
                            !.config_byte = c, !.boot_count = b] :
          v \in {UIRB_HW_VER, 18}, r \in {3333, 5000}, c \in {7, 10},
          b \in {U32_of(41), UINT32_MAX} }

\* records the store is exercised on: the factory record with one field at an edge
StoreRecords ==
    { FactoryRecord, ZeroRecord }
    \cup { [FactoryRecord EXCEPT !.bandgap_1v1_reference_offset = x] : x \in {INT8_MIN, INT8_MAX} }
    \cup { [FactoryRecord EXCEPT !.charger_prog_resistor_ohms = x] : x \in {3333} }
    \cup { [FactoryRecord EXCEPT !.config_byte = x] : x \in {0, 247} }
    \cup { [FactoryRecord EXCEPT !.month_year_byte = x] : x \in {255} }
    \cup { [FactoryRecord EXCEPT !.boot_count = x] : x \in {U32_of(0), U32_of(UINT16_MAX), <<65535, 65534>>, UINT32_MAX} }
    \cup { [FactoryRecord EXCEPT !.serial_number_u16 = x, !.reserved = y] :
               x \in {0, 9999, 10000, 49152 + 77}, y \in {0, 1, 2} }

\* the state an operation started from
Pre == [ram |-> ram, eeprom |-> eeprom, power |-> power]

\* ret is the boolean an operation returned, result the CoreResult of begin()
Did(name, arg, ret) ==
    [op |-> name, arg |-> arg, ret |-> ret, result |-> "none", pre |-> Pre]

NeverSaved == [verified |-> FALSE, data |-> ZeroRecord]

\* the processor running, no wake source armed
Awake ==
    [ halted |-> FALSE, attachWake |-> FALSE, attachIO3 |-> FALSE, timed |-> FALSE,
      io3Mode_old |-> INVALID_PIN_MODE, io3State_old |-> LOW ]

(***************************************************************************)
(* The store on its own: EEPROMDataManager's public operations             *)
(***************************************************************************)
InitManager(where, rams) ==
    /\ pc = where
    /\ ram \in rams
    /\ eeprom = FactoryRecord
    /\ initializationResult_ = "ERROR_NOT_INITIALIZED"
    /\ wdt = "off"
    /\ pins = ResetPins
    /\ power = InitPower
    /\ sleep = Awake
    /\ last = Did("none", 0, FALSE)
    /\ startEeprom = eeprom
    /\ ctorLog = <<>>
    /\ saved = NeverSaved
    /\ nops = 0
    /\ faults = 0
    /\ starts = 1

InitStore == InitManager("store", StoreRecords)

OpLimit == IF pc = "persist" THEN MaxPersistOps ELSE MaxStoreOps

StoreFrame ==
    UNCHANGED <<pc, initializationResult_, wdt, pins, power, sleep, startEeprom, ctorLog, starts>>

\* an accessor applied to the RAM mirror
StoreSetter(name, arg, r) ==
    /\ pc \in {"store", "persist"}
    /\ nops < OpLimit
    /\ ram' = r.data
    /\ last' = Did(name, arg, r.ret)
    /\ nops' = nops + 1
    /\ UNCHANGED <<eeprom, faults, saved>>
    /\ StoreFrame

Store_set_bandgap_reference_milivolts ==
    \E v \in {971, 972, 1227, 1228} :
        StoreSetter("set_bandgap_reference_milivolts", v, set_bandgap_reference_milivolts(ram, v))

Store_set_charger_prog_resistor_ohms ==
    \E v \in {3332, 3333, 3334} :
        StoreSetter("set_charger_prog_resistor_ohms", v, set_charger_prog_resistor_ohms(ram, v))

Store_set_board_manufacture_year ==
    \E v \in {2019, 2020, 2035, 2036} :
        StoreSetter("set_board_manufacture_year", v, set_board_manufacture_year(ram, v))

Store_set_board_manufacture_month ==
    \E v \in {0, 1, 12, 13} :
        StoreSetter("set_board_manufacture_month", v, set_board_manufacture_month(ram, v))

Store_set_uirb_board_serial_number ==
    \E v \in {0, 1, 9999, 10000} :
        StoreSetter("set_uirb_board_serial_number", v, set_uirb_board_serial_number(ram, v))

Store_set_stat_led_brightness ==
    \E v \in {UINT8_MAX} :
        StoreSetter("set_stat_led_brightness", v, Ret(TRUE, set_stat_led_brightness(ram, v)))

Store_allow_boot_count_increment ==
    \E v \in BOOLEAN :
        StoreSetter("allow_boot_count_increment", BoolBit(v),
                    Ret(TRUE, allow_boot_count_increment(ram, v)))

Store_increment_boot_count ==
    StoreSetter("increment_boot_count", 0, increment_boot_count(ram))

NextStore ==
    \/ Store_set_bandgap_reference_milivolts
    \/ Store_set_charger_prog_resistor_ohms
    \/ Store_set_board_manufacture_year
    \/ Store_set_board_manufacture_month
    \/ Store_set_uirb_board_serial_number
    \/ Store_set_stat_led_brightness
    \/ Store_allow_boot_count_increment
    \/ Store_increment_boot_count

SpecStore == InitStore /\ [][NextStore]_vars

(***************************************************************************)
(* Persistence on its own: save_to_eeprom and load_from_eeprom between     *)
(* mutations of the RAM mirror                                             *)
(***************************************************************************)
PersistRecords ==
    { FactoryRecord,
      [FactoryRecord EXCEPT !.stat_led_brightness = 7],
      [FactoryRecord EXCEPT !.reserved = 2],
      [FactoryRecord EXCEPT !.factory_cp2104_usb_serial_number[8] = 50],
      [ZeroRecord EXCEPT !.boot_count = UINT32_MAX] }

InitPersist == InitManager("persist", PersistRecords)

Persist_save_to_eeprom ==
    /\ pc = "persist"
    /\ nops < OpLimit
    /\ \E fault \in BOOLEAN :
          /\ fault => faults < MaxFaults
          /\ \E stored \in EEPROM_put(eeprom, ram, fault, TRUE) :
                /\ eeprom' = stored
                /\ last' = Did("save_to_eeprom", 0, store_to_eeprom(stored, ram))
                /\ saved' = [verified |-> store_to_eeprom(stored, ram), data |-> ram]
          /\ faults' = faults + BoolBit(fault)
    /\ nops' = nops + 1
    /\ UNCHANGED ram
    /\ StoreFrame

Persist_load_from_eeprom ==
    /\ pc = "persist"
    /\ nops < OpLimit
    /\ ram' = load_from_eeprom(eeprom)
    /\ last' = Did("load_from_eeprom", 0, TRUE)
    /\ nops' = nops + 1
    /\ UNCHANGED <<eeprom, faults, saved>>
    /\ StoreFrame

NextPersist ==
    \/ Persist_save_to_eeprom
    \/ Persist_load_from_eeprom
    \/ Store_set_stat_led_brightness
    \/ Store_increment_boot_count

SpecPersist == InitPersist /\ [][NextPersist]_vars

(***************************************************************************)
(* Claims about the store (SpecStore) and persistence (SpecPersist)        *)
(***************************************************************************)
IdenticalRecords(a, b) == a = b

\* C5: save_to_eeprom returns true exactly when the record read back from storage
\* equals the RAM mirror in every field, the reserved serial-number bits and all
\* eight bytes of the factory serial included.
C5_SaveTrueIffReadBackIdentical ==
    last.op = "save_to_eeprom" => (last.ret <=> IdenticalRecords(read_from_eeprom(eeprom), ram))

\* C6: once a save has verified, a later load (whatever was done to the RAM mirror
\* in between) leaves the RAM mirror equal in every field to the record saved.
C6_SaveThenLoadRoundTrip ==
    (last.op = "load_from_eeprom" /\ saved.verified) => IdenticalRecords(ram, saved.data)

\* C7: set_bandgap_reference_milivolts(v) returns true exactly for 972 <= v <= 1227;
\* on success the getter returns v and no other field changes; on failure the RAM
\* mirror is unchanged.
C7_BandgapRange ==
    last.op = "set_bandgap_reference_milivolts" =>
        /\ last.ret <=> (972 <= last.arg /\ last.arg <= 1227)
        /\ last.ret => /\ get_bandgap_reference_milivolts(ram) = last.arg
                       /\ [ram EXCEPT !.bandgap_1v1_reference_offset = 0]
                            = [last.pre.ram EXCEPT !.bandgap_1v1_reference_offset = 0]
        /\ ~last.ret => ram = last.pre.ram

C7_Witness ==
    /\ last.op = "set_bandgap_reference_milivolts"
    /\ last.arg = 972
    /\ last.ret
    /\ ram.bandgap_1v1_reference_offset = INT8_MIN

\* C8: the validating setters reject a year outside 2020..2035, a month outside
\* 1..12, a serial number 0 or above 9999 and a resistor below the minimum, and a
\* setter that returns false leaves the whole RAM mirror unchanged.
C8_SettersRejectOutOfRange ==
    /\ (last.op = "set_board_manufacture_year" /\ (last.arg < 2020 \/ last.arg > 2035))
          => ~last.ret
    /\ (last.op = "set_board_manufacture_month" /\ (last.arg < 1 \/ last.arg > 12))
          => ~last.ret
    /\ (last.op = "set_uirb_board_serial_number" /\ (last.arg = 0 \/ last.arg > 9999))
          => ~last.ret
    /\ (last.op = "set_charger_prog_resistor_ohms" /\ last.arg < 3333)
          => ~last.ret
    /\ ( /\ last.op \in { "set_board_manufacture_year", "set_board_manufacture_month",
                          "set_uirb_board_serial_number", "set_charger_prog_resistor_ohms" }
         /\ ~last.ret )
          => ram = last.pre.ram

C8_Witness ==
    /\ last.op = "set_board_manufacture_month"
    /\ last.arg = 0
    /\ ~last.ret
    /\ ram = last.pre.ram

\* C9: a record with reserved_bit_1 set reads back as the invalid serial number
\* whatever its 14-bit payload, so does a payload above 9999, and the setter
\* rejects 0 and every value above 9999.
C9_SerialNumberValidity ==
    /\ SerialNumber_reserved_bit_1(ram) = 1
          => get_uirb_board_serial_number(ram) = UINT16_MAX
    /\ SerialNumber_number(ram) > 9999
          => get_uirb_board_serial_number(ram) = UINT16_MAX
    /\ (last.op = "set_uirb_board_serial_number" /\ (last.arg = 0 \/ last.arg > 9999))
          => (~last.ret /\ ram = last.pre.ram)

C9_Witness ==
    /\ SerialNumber_reserved_bit_1(ram) = 1
    /\ SerialNumber_number(ram) = 9999
    /\ get_uirb_board_serial_number(ram) = UINT16_MAX
    /\ last.op = "set_uirb_board_serial_number"
    /\ last.ret

\* C10: increment_boot_count returns false and leaves the counter unchanged when
\* counting is disabled or the counter is at the 32-bit maximum; otherwise it adds
\* exactly one and returns true; the counter never decreases and never wraps to 0.
C10_BootCountSaturates ==
    last.op = "increment_boot_count" =>
        LET old == last.pre.ram.boot_count
            new == ram.boot_count
            refused == BitOf(last.pre.ram.config_byte, 3) = 0 \/ old = <<65535, 65535>>
        IN  /\ refused => (~last.ret /\ ram = last.pre.ram)
            /\ ~refused =>
                  /\ last.ret
                  /\ \/ (new[1] = old[1] /\ new[2] = old[2] + 1)
                     \/ (old[2] = 65535 /\ new[2] = 0 /\ new[1] = old[1] + 1)
                  /\ [ram EXCEPT !.boot_count = old] = last.pre.ram
            /\ ~U32_less(new, old)
            /\ new = <<0, 0>> => old = <<0, 0>>

C10_Witness ==
    /\ last.op = "increment_boot_count"
    /\ last.pre.ram.boot_count = <<65535, 65535>>
    /\ BitOf(last.pre.ram.config_byte, 3) = 1
    /\ ~last.ret
    /\ ram.boot_count = <<65535, 65535>>

(***************************************************************************)
(* The device: construction of the UIRB singleton, then its public         *)
(* operations                                                              *)
(***************************************************************************)
Init ==
    /\ pc = "boot"
    /\ eeprom \in BootRecords
    /\ ram = ZeroRecord
    /\ initializationResult_ = "ERROR_NOT_INITIALIZED"
    /\ wdt = "off"
    /\ pins = ResetPins
    /\ power = InitPower
    /\ sleep = Awake
    /\ last = Did("none", 0, FALSE)
    /\ startEeprom = eeprom
    /\ ctorLog = <<>>
    /\ saved = NeverSaved
    /\ nops = 0
    /\ faults = 0
    /\ starts = 1

\* EEPROMDataManager(): only hardware_version is read before the version is known
EEPROMDataManager_ctor ==
    /\ pc = "boot"
    /\ LET versionOnly == [ram EXCEPT !.version_byte = read_from_eeprom(eeprom).version_byte]
       IN  ram' = IF hardware_version_matches(versionOnly)
                  THEN load_from_eeprom(eeprom)
                  ELSE versionOnly
    /\ pc' = "ctor_check"
    /\ UNCHANGED <<eeprom, initializationResult_, wdt, pins, power, sleep, last,
                   startEeprom, ctorLog, saved, nops, faults, starts>>

\* UIRB(): the version check; on a mismatch the watchdog is armed and the
\* constructor spins
UIRB_ctor_version_check ==
    /\ pc = "ctor_check"
    /\ ctorLog' = Append(ctorLog, "hardware_version_matches")
    /\ IF ~hardware_version_matches(ram)
       THEN /\ initializationResult_' = "ERROR_EEPROM_HW_VER_MISMATCH"
            /\ wdt' = "WDTO_2S"
            /\ pc' = "halted"
       ELSE /\ pc' = "ctor_pins"
            /\ UNCHANGED <<initializationResult_, wdt>>
    /\ UNCHANGED <<eeprom, ram, pins, power, sleep, last, startEeprom, saved, nops,
                   faults, starts>>

UIRB_ctor_pin_states ==
    /\ pc = "ctor_pins"
    /\ pins' = DefaultPinStates(pins)
    /\ ctorLog' = Append(ctorLog, "pinMode")
    /\ pc' = "ctor_count"
    /\ UNCHANGED <<eeprom, ram, initializationResult_, wdt, power, sleep, last,
                   startEeprom, saved, nops, faults, starts>>

UIRB_ctor_boot_count ==
    /\ pc = "ctor_count"
    /\ ram' = set_avr_serial_debugger(increment_boot_count(ram).data, FALSE)
    /\ ctorLog' = Append(ctorLog, "increment_boot_count")
    /\ pc' = "ctor_save"
    /\ UNCHANGED <<eeprom, initializationResult_, wdt, pins, power, sleep, last,
                   startEeprom, saved, nops, faults, starts>>

UIRB_ctor_save ==
    /\ pc = "ctor_save"
    /\ \E fault \in BOOLEAN :
          /\ fault => faults < MaxFaults
          /\ faults' = faults + BoolBit(fault)
          /\ \E stored \in EEPROM_put(eeprom, ram, fault, FALSE) :
                /\ eeprom' = stored
                /\ saved' = [verified |-> store_to_eeprom(stored, ram), data |-> ram]
                /\ IF ~store_to_eeprom(stored, ram)
                   THEN /\ initializationResult_' = "ERROR_EEPROM_SAVE_FAILED"
                        /\ ctorLog' = Append(ctorLog, "save_to_eeprom failed")
                        /\ pc' = "ready"
                   ELSE /\ ctorLog' = Append(ctorLog, "save_to_eeprom")
                        /\ pc' = "ctor_resistor"
                        /\ UNCHANGED initializationResult_
    /\ UNCHANGED <<ram, wdt, pins, power, sleep, last, startEeprom, nops, starts>>

UIRB_ctor_resistor ==
    /\ pc = "ctor_resistor"
    /\ ctorLog' = Append(ctorLog, "get_charger_prog_resistor_ohms")
    /\ IF get_charger_prog_resistor_ohms(ram) = INVALID_CHARGER_PROG_RESISTANCE
       THEN /\ initializationResult_' = "ERROR_EEPROM_CHARGER_PROG_RESISTANCE_INVALID"
            /\ UNCHANGED pins
       ELSE /\ pins' = digitalWrite(pins, "PIN_STAT_LED", LOW)
            /\ initializationResult_' = "SUCCESS"
    /\ pc' = "ready"
    /\ UNCHANGED <<eeprom, ram, wdt, power, sleep, last, startEeprom, saved, nops,
                   faults, starts>>

\* the armed watchdog expires while the constructor spins: the device restarts
\* with storage as it is
WatchdogReset ==
    /\ pc = "halted"
    /\ wdt = "WDTO_2S"
    /\ starts < MaxStarts
    /\ pc' = "boot"
    /\ ram' = ZeroRecord
    /\ initializationResult_' = "ERROR_NOT_INITIALIZED"
    /\ wdt' = "off"
    /\ pins' = ResetPins
    /\ power' = InitPower
    /\ sleep' = Awake
    /\ last' = [op |-> "none", arg |-> 0, ret |-> FALSE, result |-> "none",
                pre |-> [ram |-> ZeroRecord, eeprom |-> eeprom, power |-> InitPower]]
    /\ startEeprom' = eeprom
    /\ ctorLog' = <<>>
    /\ saved' = NeverSaved
    /\ nops' = 0
    /\ starts' = starts + 1
    /\ UNCHANGED <<eeprom, faults>>

\* operator!(CoreResult): true for every result but SUCCESS
CoreResult_not(result) == result # "SUCCESS"

\* UIRB::saveToEEPROM: the values it can return and the record storage then holds
UIRB_saveToEEPROM(initResult, old, data, fault) ==
    IF CoreResult_not(initResult)
    THEN { [ret |-> FALSE, eeprom |-> old, wrote |-> FALSE] }
    ELSE { [ret |-> store_to_eeprom(stored, data), eeprom |-> stored, wrote |-> TRUE] :
               stored \in EEPROM_put(old, data, fault, FALSE) }

OpFrame == UNCHANGED <<initializationResult_, startEeprom, ctorLog, starts>>

\* a facade call that may end in saveToEEPROM: data is the RAM mirror it leaves,
\* callsSave whether it reaches saveToEEPROM
FacadeCall(name, arg, data, callsSave) ==
    /\ pc = "ready"
    /\ nops < MaxOps
    /\ nops' = nops + 1
    /\ ram' = data
    /\ IF ~callsSave
       THEN /\ last' = Did(name, arg, FALSE)
            /\ UNCHANGED <<eeprom, saved, faults>>
       ELSE \E fault \in BOOLEAN :
               /\ fault => (faults < MaxFaults /\ ~CoreResult_not(initializationResult_))
               /\ faults' = faults + BoolBit(fault)
               /\ \E o \in UIRB_saveToEEPROM(initializationResult_, eeprom, data, fault) :
                     /\ eeprom' = o.eeprom
                     /\ last' = Did(name, arg, o.ret)
                     /\ saved' = IF o.wrote THEN [verified |-> o.ret, data |-> data] ELSE saved
    /\ UNCHANGED <<pc, wdt, pins, power, sleep>>
    /\ OpFrame

begin ==
    /\ pc = "ready"
    /\ nops < MaxOps
    /\ nops' = nops + 1
    /\ last' = [Did("begin", 0, ~CoreResult_not(initializationResult_))
                   EXCEPT !.result = initializationResult_]
    /\ UNCHANGED <<pc, eeprom, ram, wdt, pins, power, sleep, saved, faults>>
    /\ OpFrame

reloadFromEEPROM ==
    /\ pc = "ready"
    /\ nops < MaxOps
    /\ nops' = nops + 1
    /\ ram' = load_from_eeprom(eeprom)
    /\ last' = Did("reloadFromEEPROM", 0,
                   get_charger_prog_resistor_ohms(load_from_eeprom(eeprom))
                       # INVALID_CHARGER_PROG_RESISTANCE)
    /\ UNCHANGED <<pc, eeprom, wdt, pins, power, sleep, saved, faults>>
    /\ OpFrame

saveToEEPROM == FacadeCall("saveToEEPROM", 0, ram, TRUE)

setStatusLEDBrightness ==
    \E brightness \in {200}, save \in BOOLEAN :
        FacadeCall("setStatusLEDBrightness", brightness,
                   set_stat_led_brightness(ram, brightness), save)

setSleepingAllowed ==
    \E allowed \in BOOLEAN, save \in BOOLEAN :
        FacadeCall("setSleepingAllowed", BoolBit(allowed), allow_sleep_mode(ram, allowed), save)

setWakeupFromIO3Allowed ==
    \E allowed \in BOOLEAN, save \in BOOLEAN :
        FacadeCall("setWakeupFromIO3Allowed", BoolBit(allowed),
                   allow_sleep_mode_io3_wakeup(ram, allowed), save)

\* res && saveToEEPROM(): a rejected value never reaches the save
setInternalBandgapReferenceVoltageMilivolts ==
    \E milivolts \in {971, 1000}, save \in BOOLEAN :
        LET res == set_bandgap_reference_milivolts(ram, milivolts)
        IN  FacadeCall("setInternalBandgapReferenceVoltageMilivolts", milivolts,
                       res.data, save /\ res.ret)

\* PowerInfoData::update(samples)
update ==
    /\ pc = "ready"
    /\ nops < MaxOps
    /\ nops' = nops + 1
    /\ \E samples \in {0, DEFAULT_SAMPLES}, e \in EnvSamples :
          LET r == PowerInfoData_update(power, ram, pins, initializationResult_, samples, e)
          IN  /\ power' = r.power
              /\ pins' = r.pins
              /\ last' = Did("update", samples, r.ret)
    /\ UNCHANGED <<pc, eeprom, ram, wdt, sleep, saved, faults>>
    /\ OpFrame

WakeupInterrupts == {"NONE", "WAKE_BUTTON", "USB_IO3", "WAKE_BUTTON_AND_USB_IO3"}

\* UIRB::powerDown up to sleep_cpu(): the early return, or the wake sources armed
\* and the processor halted
powerDown ==
    /\ pc = "ready"
    /\ nops < MaxOps
    /\ nops' = nops + 1
    /\ \E sleeptime_milliseconds \in {0, 100}, wakeupSource \in WakeupInterrupts,
          external \in {LOW, HIGH} :
          IF ~is_sleep_mode_allowed(ram)
          THEN /\ last' = Did("powerDown", sleeptime_milliseconds, FALSE)
               /\ UNCHANGED <<pc, pins, sleep, wdt>>
          ELSE LET attachWake == wakeupSource \in {"WAKE_BUTTON", "WAKE_BUTTON_AND_USB_IO3"}
                   attachIO3 == /\ is_sleep_mode_io3_wakeup_allowed(ram)
                                /\ wakeupSource \in {"USB_IO3", "WAKE_BUTTON_AND_USB_IO3"}
                   irOff == digitalWrite(pins, "PIN_IR_LED", LOW)
               IN  /\ pins' = IF attachIO3 THEN pinMode(irOff, "PIN_USB_IO3", INPUT_PULLUP)
                                           ELSE irOff
                   /\ sleep' = [ halted |-> TRUE,
                                 attachWake |-> attachWake,
                                 attachIO3 |-> attachIO3,
                                 timed |-> sleeptime_milliseconds > 0,
                                 io3Mode_old |-> IF attachIO3 THEN getPinMode(irOff, "PIN_USB_IO3")
                                                 ELSE INVALID_PIN_MODE,
                                 io3State_old |-> IF attachIO3
                                                  THEN digitalRead(irOff, "PIN_USB_IO3", external)
                                                  ELSE LOW ]
                   /\ wdt' = IF sleeptime_milliseconds > 0 THEN "interval" ELSE wdt
                   /\ pc' = "asleep"
                   /\ last' = Did("powerDown", sleeptime_milliseconds, TRUE)
    /\ UNCHANGED <<eeprom, ram, power, saved, faults>>
    /\ OpFrame

\* UIRB::powerDown after sleep_cpu() returns: an armed source fired or the sleep
\* time ran out; the wake sources are detached and IO3 is put back
Wake ==
    /\ pc = "asleep"
    /\ sleep.attachWake \/ sleep.attachIO3 \/ sleep.timed
    /\ pins' = IF sleep.attachIO3 /\ sleep.io3Mode_old # INVALID_PIN_MODE
               THEN digitalWrite(pinMode(pins, "PIN_USB_IO3", sleep.io3Mode_old),
                                 "PIN_USB_IO3", sleep.io3State_old)
               ELSE pins
    /\ wdt' = IF sleep.timed THEN "off" ELSE wdt
    /\ sleep' = [sleep EXCEPT !.halted = FALSE]
    /\ pc' = "ready"
    /\ UNCHANGED <<eeprom, ram, power, last, saved, nops, faults>>
    /\ OpFrame

Next ==
    \/ EEPROMDataManager_ctor
    \/ UIRB_ctor_version_check
    \/ UIRB_ctor_pin_states
    \/ UIRB_ctor_boot_count
    \/ UIRB_ctor_save
    \/ UIRB_ctor_resistor
    \/ WatchdogReset
    \/ begin
    \/ reloadFromEEPROM
    \/ saveToEEPROM
    \/ setStatusLEDBrightness
    \/ setSleepingAllowed
    \/ setWakeupFromIO3Allowed
    \/ setInternalBandgapReferenceVoltageMilivolts
    \/ update
    \/ powerDown
    \/ Wake

Spec == Init /\ [][Next]_vars

(***************************************************************************)
(* Claims about the device (Spec)                                          *)
(***************************************************************************)
FacadeOps ==
    { "begin", "reloadFromEEPROM", "saveToEEPROM", "setStatusLEDBrightness",
      "setSleepingAllowed", "setWakeupFromIO3Allowed",
      "setInternalBandgapReferenceVoltageMilivolts", "update", "powerDown" }

ConstructorSteps ==
    << "hardware_version_matches", "pinMode", "increment_boot_count", "save_to_eeprom",
       "get_charger_prog_resistor_ohms" >>

\* C1: in a start whose stored hardware version differs from the expected one the
\* constructor never completes: it ends spinning with the version-mismatch result
\* and the watchdog armed; the boot count is not incremented, storage is not
\* written, nothing but the version byte reaches the RAM mirror, and no public
\* operation runs.
C1_VersionMismatchHalts ==
    startEeprom.version_byte # UIRB_HW_VER =>
        /\ pc \in {"boot", "ctor_check", "halted"}
        /\ pc = "halted" => /\ initializationResult_ = "ERROR_EEPROM_HW_VER_MISMATCH"
                            /\ wdt = "WDTO_2S"
        /\ eeprom = startEeprom
        /\ ram \in {ZeroRecord, [ZeroRecord EXCEPT !.version_byte = startEeprom.version_byte]}
        /\ pins = ResetPins
        /\ nops = 0
        /\ last.op = "none"

C1_Witness ==
    /\ pc = "halted"
    /\ startEeprom.version_byte = 18
    /\ startEeprom.boot_count = U32_of(41)
    /\ ram.boot_count = U32_of(0)
    /\ wdt = "WDTO_2S"
    /\ starts = 2

\* C2: while the initialization result is not SUCCESS no public operation has an
\* effect: powerDown arms no wake source and does not halt the processor, and
\* reloadFromEEPROM and the field setters leave the RAM mirror unchanged.
C2_NoEffectWhenNotInitialized ==
    ( /\ pc \in {"ready", "asleep"}
      /\ initializationResult_ # "SUCCESS"
      /\ last.op \in FacadeOps )
        => /\ ram = last.pre.ram
           /\ pc # "asleep"
           /\ ~sleep.halted /\ ~sleep.attachWake /\ ~sleep.attachIO3

\* C3: while the initialization result is not SUCCESS, saveToEEPROM returns false
\* and leaves storage unchanged (also when reached through a setter), and
\* PowerInfoData::update returns false and leaves every cached power field
\* unchanged.
C3_SaveAndUpdateRefuseWhenNotInitialized ==
    ( /\ pc \in {"ready", "asleep"}
      /\ initializationResult_ # "SUCCESS" )
        => /\ last.op = "saveToEEPROM" => (last.ret = FALSE /\ eeprom = last.pre.eeprom)
           /\ last.op \in { "setStatusLEDBrightness", "setSleepingAllowed",
                            "setWakeupFromIO3Allowed",
                            "setInternalBandgapReferenceVoltageMilivolts" }
                 => (last.ret = FALSE /\ eeprom = last.pre.eeprom)
           /\ last.op = "update" => (last.ret = FALSE /\ power = last.pre.power)

C3_Witness ==
    /\ pc = "ready"
    /\ initializationResult_ = "ERROR_EEPROM_CHARGER_PROG_RESISTANCE_INVALID"
    /\ last.op = "update"
    /\ last.arg = DEFAULT_SAMPLES
    /\ last.ret = FALSE
    /\ power = InitPower
    /\ ram # eeprom

C11_BootCountIncrementedOncePerStart ==
    LET n == Len(ctorLog)
        applied == { i \in 1..n : ctorLog[i] = "increment_boot_count" }
        enabled == BitOf(startEeprom.config_byte, BOOT_COUNT_INCREMENT_BIT) = 1
        belowMax == startEeprom.boot_count # UINT32_MAX
        counted == IF enabled /\ belowMax THEN U32_inc(startEeprom.boot_count)
                   ELSE startEeprom.boot_count
        saveSucceeded == n >= 4 /\ ctorLog[4] = "save_to_eeprom"
    IN  /\ Cardinality(applied) <= 1
        /\ pc \in {"ready", "asleep"} => applied = {3}
        /\ applied = {} => /\ ram.boot_count \in {U32_of(0), startEeprom.boot_count}
                           /\ eeprom.boot_count = startEeprom.boot_count
        /\ applied # {} => /\ ram.boot_count \in {startEeprom.boot_count, counted}
                           /\ eeprom.boot_count \in {startEeprom.boot_count, counted}
        /\ last.op \in FacadeOps
              => /\ ~U32_less(last.pre.ram.boot_count, ram.boot_count)
                 /\ eeprom.boot_count = last.pre.eeprom.boot_count
        /\ (pc \in {"ready", "asleep"} /\ enabled /\ belowMax /\ saveSucceeded)
              => eeprom.boot_count = U32_inc(startEeprom.boot_count)

C11_Witness ==
    /\ pc = "ready"
    /\ BitOf(startEeprom.config_byte, BOOT_COUNT_INCREMENT_BIT) = 1
    /\ startEeprom.boot_count = U32_of(41)
    /\ Len(ctorLog) = 5
    /\ eeprom.boot_count = U32_of(42)
    /\ last.op = "saveToEEPROM"
    /\ last.ret = TRUE
    /\ nops = 2

(***************************************************************************)
(* The power estimator's derivations on their own (SpecPower): the charging *)
(* current from the PROG measurement, then the charger state, then the      *)
(* battery state, in the order PowerInfoData::update applies them           *)
(***************************************************************************)
ProgMilivoltsInputs ==
    {0, 14, 15, 16, 99, 100, 899, 900, 1000, 1100, 1101, INVALID_VOLTAGE_MILIVOLTS}

SupplyMilivoltsInputs ==
    {3399, 3400, 3999, 4000, 4001, 4149, 4150, INVALID_VOLTAGE_MILIVOLTS}

ProgResistorInputs == {0, INVALID_PROG_RESISTOR_RESISTANCE, 3334, 5000, 20000}

ProgPinModes == {INPUT, OUTPUT, INPUT_PULLUP, INVALID_PIN_MODE}

InitEstimator ==
    /\ pc = "derive"
    /\ \E supply \in SupplyMilivoltsInputs, prog \in ProgMilivoltsInputs,
          mode \in ProgPinModes, state \in BOOLEAN :
          power = [InitPower EXCEPT !.supply_voltage_milivolts_ = supply,
                                    !.prog_voltage_milivolts_ = prog,
                                    !.prog_pin_mode_ = mode,
                                    !.prog_pin_state_ = state]
    /\ eeprom = FactoryRecord
    /\ ram = FactoryRecord
    /\ initializationResult_ = "SUCCESS"
    /\ wdt = "off"
    /\ pins = DefaultPinStates(ResetPins)
    /\ sleep = Awake
    /\ last = Did("none", 0, FALSE)
    /\ startEeprom = eeprom
    /\ ctorLog = <<>>
    /\ saved = NeverSaved
    /\ nops = 0
    /\ faults = 0
    /\ starts = 1

EstimatorFrame ==
    UNCHANGED <<eeprom, ram, initializationResult_, wdt, pins, sleep, startEeprom,
                ctorLog, saved, nops, faults, starts>>

\* last.arg keeps the resistor the current was derived with
Power_prog_milivolts_to_charging_current_miliamps ==
    /\ pc = "derive"
    /\ \E prog_resistor_ohms \in ProgResistorInputs :
          LET current == prog_milivolts_to_charging_current_miliamps(
                             power.prog_voltage_milivolts_, prog_resistor_ohms,
                             power.prog_pin_mode_, power.prog_pin_state_)
          IN  /\ power' = [power EXCEPT !.charging_current_miliamps_ = current]
              /\ last' = Did("prog_milivolts_to_charging_current_miliamps",
                             prog_resistor_ohms, current # INVALID_CURRENT_MILIAMPS)
    /\ pc' = "classify"
    /\ EstimatorFrame

Power_get_estimated_charger_state ==
    /\ pc = "classify"
    /\ power' = [power EXCEPT !.estimated_charger_state_ = get_estimated_charger_state(power)]
    /\ pc' = "battery"
    /\ UNCHANGED last
    /\ EstimatorFrame

Power_get_estimated_battery_state ==
    /\ pc = "battery"
    /\ power' = [power EXCEPT !.estimated_battery_state_ = get_estimated_battery_state(power)]
    /\ pc' = "estimated"
    /\ UNCHANGED last
    /\ EstimatorFrame

NextPower ==
    \/ Power_prog_milivolts_to_charging_current_miliamps
    \/ Power_get_estimated_charger_state
    \/ Power_get_estimated_battery_state

SpecPower == InitEstimator /\ [][NextPower]_vars

(***************************************************************************)
(* Claims about the power estimator's derivations (SpecPower)              *)
(***************************************************************************)
\* the current has been derived from the measurement the state holds
CurrentDerived == last.op = "prog_milivolts_to_charging_current_miliamps"

OutputHigh == power.prog_pin_mode_ = OUTPUT /\ power.prog_pin_state_

OutputLowOrPullup ==
    \/ power.prog_pin_mode_ = OUTPUT /\ ~power.prog_pin_state_
    \/ power.prog_pin_mode_ = INPUT_PULLUP

\* C12: in the charging-current derivation, with the control pin a digital output
\* at logic-high the result is 0 mA for every pin-voltage value; with the pin a
\* digital output at logic-low or an input with pull-up the result is the
\* indeterminate sentinel 65534, never 0 and never the invalid sentinel.
C12_PinModeDecidesForEveryVoltage ==
    CurrentDerived =>
        /\ OutputHigh => power.charging_current_miliamps_ = 0
        /\ OutputLowOrPullup => power.charging_current_miliamps_ = 65534

\* C12 (amended): the pin-mode rules hold for every valid pin voltage and valid
\* resistor; when the pin voltage is the invalid sentinel, or the resistor is 0
\* or the invalid-resistance sentinel, the result is the invalid sentinel 65535
\* whatever the pin mode and level.
C12_PinModeDecidesForValidInputs ==
    CurrentDerived =>
        IF power.prog_voltage_milivolts_ = INVALID_VOLTAGE_MILIVOLTS
           \/ last.arg \in {0, INVALID_PROG_RESISTOR_RESISTANCE}
        THEN power.charging_current_miliamps_ = 65535
        ELSE /\ OutputHigh => power.charging_current_miliamps_ = 0
             /\ OutputLowOrPullup => power.charging_current_miliamps_ = 65534

C12_Witness ==
    /\ CurrentDerived
    /\ OutputHigh
    /\ power.prog_voltage_milivolts_ = 1000
    /\ last.arg = 5000
    /\ power.charging_current_miliamps_ = 0

PlainInput == power.prog_pin_mode_ = INPUT

\* the resistor the current was derived with is neither 0 nor the invalid sentinel
ValidResistor == last.arg \notin {0, INVALID_PROG_RESISTOR_RESISTANCE}

\* C13: with the control pin a plain input and a valid resistor, a pin voltage of
\* exactly 1100 mV yields 0 mA and a pin voltage of exactly 15 mV yields 0 mA.
C13_EdgeVoltagesGiveZero ==
    (CurrentDerived /\ PlainInput /\ ValidResistor
       /\ power.prog_voltage_milivolts_ \in {1100, 15})
        => power.charging_current_miliamps_ = 0

\* C13 (amended): with the control pin a plain input and a valid resistor, the
\* edge voltages 1100 mV and 15 mV are inside the window: they yield a non-zero
\* current (220 mA and 3 mA at 5000 ohms), while 1101 mV and 14 mV yield 0 mA.
C13_EdgeVoltagesInsideWindow ==
    (CurrentDerived /\ PlainInput /\ ValidResistor) =>
        /\ power.prog_voltage_milivolts_ \in {1100, 15}
              => power.charging_current_miliamps_ \in 1..65533
        /\ (power.prog_voltage_milivolts_ = 1100 /\ last.arg = 5000)
              => power.charging_current_miliamps_ = 220
        /\ (power.prog_voltage_milivolts_ = 15 /\ last.arg = 5000)
              => power.charging_current_miliamps_ = 3
        /\ power.prog_voltage_milivolts_ \in {1101, 14}
              => power.charging_current_miliamps_ = 0

C13_Witness ==
    /\ CurrentDerived
    /\ PlainInput
    /\ power.prog_voltage_milivolts_ = 1100
    /\ last.arg = 5000
    /\ power.charging_current_miliamps_ = 220

\* C14: with the control pin a plain input, a valid pin voltage and a valid
\* resistor R (above the 3333 ohm minimum), the derived current is 0 mA when the
\* pin voltage is above 1100 mV or below 15 mV, and otherwise floor(mV * 1000 / R)
\* raised to 1 mA when that quotient is 0 (1000 mV at 5000 ohms gives 200 mA);
\* 0 mA is returned only in the out-of-window case.
C14_PlainInputCurrent ==
    ( /\ CurrentDerived
      /\ PlainInput
      /\ last.arg > CHARGER_PROG_RESISTANCE_MIN
      /\ power.prog_voltage_milivolts_ # INVALID_VOLTAGE_MILIVOLTS )
        => LET mV == power.prog_voltage_milivolts_
               quotient == (mV * 1000) \div last.arg
               outOfWindow == mV > 1100 \/ mV < 15
               current == power.charging_current_miliamps_
           IN  /\ outOfWindow => current = 0
               /\ ~outOfWindow => current = IF quotient = 0 THEN 1 ELSE quotient
               /\ current = 0 => outOfWindow
               /\ (mV = 1000 /\ last.arg = 5000) => current = 200

C14_Witness ==
    /\ CurrentDerived
    /\ PlainInput
    /\ power.prog_voltage_milivolts_ = 15
    /\ last.arg = 20000
    /\ power.charging_current_miliamps_ = 1

\* the charger state has been classified from the measurement the state holds
ChargerClassified == pc \in {"battery", "estimated"}

AnyInputInvalid ==
    \/ power.supply_voltage_milivolts_ = 65535
    \/ power.prog_voltage_milivolts_ = 65535
    \/ power.charging_current_miliamps_ = 65535

\* C15: the charger classification is ERROR whenever the supply voltage, the pin
\* voltage or the current is the invalid sentinel, and otherwise UNKNOWN whenever
\* the current is the indeterminate sentinel, whatever voltage window the pin and
\* supply voltages fall in.
C15_ErrorThenIndeterminate ==
    ChargerClassified =>
        /\ AnyInputInvalid => power.estimated_charger_state_ = "ERROR"
        /\ (~AnyInputInvalid /\ power.charging_current_miliamps_ = 65534)
              => power.estimated_charger_state_ = "UNKNOWN"

C15_Witness ==
    /\ ChargerClassified
    /\ power.supply_voltage_milivolts_ = 3999
    /\ power.prog_voltage_milivolts_ = 1000
    /\ power.charging_current_miliamps_ = 65534
    /\ power.estimated_charger_state_ = "UNKNOWN"

\* every input of the classification is valid and the current is determinate
ValidDeterminate == ~AnyInputInvalid /\ power.charging_current_miliamps_ # 65534

\* C16: with valid, determinate inputs the charger state is constant-current
\* charging exactly when the pin voltage is in [900, 1100] mV and the supply
\* voltage is below 4150 mV; a pin voltage in [900, 1100] mV with the supply at or
\* above 4150 mV gives UNKNOWN; a pin voltage above 1100 mV is never classified as
\* constant-current.
C16_ConstantCurrentWindow ==
    (ChargerClassified /\ ValidDeterminate) =>
        LET inWindow == power.prog_voltage_milivolts_ \in 900..1100
        IN  /\ power.estimated_charger_state_ = "CHARGING_CC"
                  <=> (inWindow /\ power.supply_voltage_milivolts_ < 4150)
            /\ (inWindow /\ power.supply_voltage_milivolts_ >= 4150)
                  => power.estimated_charger_state_ = "UNKNOWN"
            /\ power.prog_voltage_milivolts_ > 1100
                  => power.estimated_charger_state_ # "CHARGING_CC"

C18_OutsideBothWindows ==
    (ChargerClassified /\ ValidDeterminate) =>
        /\ power.prog_voltage_milivolts_ \notin 100..1100
              => power.estimated_charger_state_ =
                     IF power.supply_voltage_milivolts_ >= 4000 THEN "FLOATING"
                     ELSE IF power.charging_current_miliamps_ = 0 THEN "TURNED_OFF"
                     ELSE "UNKNOWN"
        /\ power.estimated_charger_state_ = "TURNED_OFF"
              => /\ power.supply_voltage_milivolts_ < 4000
                 /\ power.charging_current_miliamps_ = 0

\* C19: the battery state is derived from the charger state and the supply
\* voltage in this order: ERROR if the supply is invalid or the charger state is
\* ERROR; CHARGING if the charger state is constant-current or constant-voltage;
\* FULLY_CHARGED if the charger is FLOATING or the supply is at least 4000 mV;
\* EMPTY if the supply is below 3400 mV; NOT_CHARGING if the charger is
\* TURNED_OFF; otherwise UNKNOWN.
C19_BatteryStateOrder ==
    pc = "estimated" =>
        LET supply == power.supply_voltage_milivolts_
            charger == power.estimated_charger_state_
        IN  power.estimated_battery_state_ =
                IF supply = 65535 \/ charger = "ERROR" THEN "ERROR"
                ELSE IF charger \in {"CHARGING_CC", "CHARGING_CV"} THEN "CHARGING"
                ELSE IF charger = "FLOATING" \/ supply >= 4000 THEN "FULLY_CHARGED"
                ELSE IF supply < 3400 THEN "EMPTY"
                ELSE IF charger = "TURNED_OFF" THEN "NOT_CHARGING"
                ELSE "UNKNOWN"

C19_Witness ==
    /\ pc = "estimated"
    /\ power.supply_voltage_milivolts_ = 3399
    /\ power.estimated_charger_state_ = "TURNED_OFF"
    /\ power.estimated_battery_state_ = "EMPTY"

AREF_EXTERNAL == 0
INVALID_ANALOG_REF == 255

\* ADCSRA's ADC enable bit and ACSR's comparator disable bit
ADEN == 7
ACD == 7

bitClear(value, bit) == WithBit(value, bit, 0)

\* reference the selection bits REFS1:0 of ADMUX stand for
getAnalogReference(refs) ==
    CASE refs = 0 -> AREF_DEFAULT
      [] refs = 1 -> AREF_EXTERNAL
      [] refs = 3 -> AREF_INTERNAL1V1
      [] OTHER -> INVALID_ANALOG_REF

\* selection bits after setAnalogReference(aref): ADMUX = (aref << 6) | 0b1111
setAnalogReference(refs, aref) ==
    IF aref \in {AREF_EXTERNAL, AREF_DEFAULT, AREF_INTERNAL1V1} THEN aref % 4 ELSE refs

isSleepingAllowed_always(d) == TRUE

isSleepingAllowed(d) == is_sleep_mode_allowed(d)

isWakeupFromIO3Allowed(d) == is_sleep_mode_io3_wakeup_allowed(d)

attachWake_for_any_source(wakeupSource) == wakeupSource # "NONE"

attachWake_for_button_only(wakeupSource) == wakeupSource = "WAKE_BUTTON"

attachWake_for(wakeupSource) == wakeupSource \in {"WAKE_BUTTON", "WAKE_BUTTON_AND_USB_IO3"}

attachIO3_for(d, wakeupSource) ==
    isWakeupFromIO3Allowed(d) /\ wakeupSource \in {"USB_IO3", "WAKE_BUTTON_AND_USB_IO3"}

\* watchdog periods in milliseconds, indexed from 1 (WDTO_15MS is period 0)
wdt_intervals == <<16, 32, 64, 125, 250, 500, 1000, 2000, 4000, 8000>>

\* the period the loop arms for the time left: the largest step that fits, the
\* period of the interval before when none fits
wdt_period_for(remaining_time, wdt_period) ==
    LET fits == { i \in 0..9 : remaining_time >= wdt_intervals[i + 1] }
    IN  IF fits = {} THEN wdt_period
        ELSE CHOOSE i \in fits : \A j \in fits : j <= i

remaining_time_after_interval_dropped(remaining_time, wdt_period, woken_by_edge) == 0

remaining_time_after_never_reaching_zero(remaining_time, wdt_period, woken_by_edge) ==
    IF woken_by_edge THEN 0
    ELSE IF remaining_time > wdt_intervals[wdt_period + 1]
    THEN remaining_time - wdt_intervals[wdt_period + 1]
    ELSE remaining_time

remaining_time_after_ignoring_edges(remaining_time, wdt_period, woken_by_edge) ==
    IF remaining_time > wdt_intervals[wdt_period + 1]
    THEN remaining_time - wdt_intervals[wdt_period + 1]
    ELSE 0

\* the time left after an interval: none once an edge source woke the processor
remaining_time_after(remaining_time, wdt_period, woken_by_edge) ==
    IF woken_by_edge THEN 0
    ELSE IF remaining_time > wdt_intervals[wdt_period + 1]
    THEN remaining_time - wdt_intervals[wdt_period + 1]
    ELSE 0

\* sleep durations in milliseconds; 0 is SLEEP_FOREVER
SleepTimes == {0, 1, 17, 8001, 10000}

\* configurations the application can have left the IO3 pin in
IO3PinStates == { [ddr |-> d, port |-> p] : d \in {0, 1}, p \in {0, 1} }

\* reference selections the application can have made
RefsInputs == {0, 1, 3}

\* the registers and wake flags before powerDown is called; the public wake flags
\* may still be set from an earlier sleep cycle; callbacks tells whether the two
\* user callbacks are registered (non-null)
SleepRegisters(refs, acsr, buttonFlag, io3Flag, callbacks) ==
    [ I |-> TRUE, int0 |-> FALSE, intf0 |-> FALSE, pcie |-> FALSE, pcif |-> FALSE,
      isr_wakeup_button_flag_ |-> buttonFlag,
      isr_wakeup_io3_flag_ |-> io3Flag,
      isr_wakeup_button_flag_internal_ |-> FALSE,
      isr_wakeup_io3_flag_internal_ |-> FALSE,
      pcint2_interrupt_flag |-> FALSE,
      button_wakeup_user_callback_ |-> callbacks,
      io3_wakeup_user_callback_ |-> callbacks,
      ADCSRA |-> 135, ACSR |-> acsr, REFS |-> refs,
      wakeupSource |-> "NONE", attachWake |-> FALSE, attachIO3 |-> FALSE,
      io3Mode_old |-> INVALID_PIN_MODE, io3State_old |-> LOW,
      adcsra_old |-> 0, acsr_old |-> 0, oldAnalogRef |-> INVALID_ANALOG_REF,
      sleeptime_milliseconds |-> 0, remaining_time |-> 0, wdt_period |-> 0,
      armed |-> <<>>, called |-> <<>>, fired |-> {}, edgeWakeAt |-> 0,
      haltedFlagged |-> FALSE, haltedUnarmed |-> FALSE,
      atCall |-> [io3 |-> [ddr |-> 0, port |-> 0], ADCSRA |-> 0, ACSR |-> 0, REFS |-> 0,
                  isr_wakeup_button_flag_ |-> FALSE, isr_wakeup_io3_flag_ |-> FALSE] ]

InitSleep ==
    /\ pc = "awake"
    /\ \E sleepAllowed \in BOOLEAN, io3Allowed \in BOOLEAN :
          ram = allow_sleep_mode_io3_wakeup(allow_sleep_mode(FactoryRecord, sleepAllowed),
                                            io3Allowed)
    /\ eeprom = FactoryRecord
    /\ initializationResult_ = "SUCCESS"
    /\ wdt = "off"
    /\ \E io3 \in IO3PinStates :
          pins = [DefaultPinStates(ResetPins) EXCEPT !["PIN_USB_IO3"] = io3]
    /\ \E refs \in RefsInputs, acsr \in {0, 128}, buttonFlag \in BOOLEAN, io3Flag \in BOOLEAN,
          callbacks \in BOOLEAN :
          sleep = SleepRegisters(refs, acsr, buttonFlag, io3Flag, callbacks)
    /\ power = InitPower
    /\ last = Did("none", 0, FALSE)
    /\ startEeprom = eeprom
    /\ ctorLog = <<>>
    /\ saved = NeverSaved
    /\ nops = 0
    /\ faults = 0
    /\ starts = 1

SleepFrame ==
    UNCHANGED <<eeprom, ram, initializationResult_, power, startEeprom, ctorLog, saved,
                nops, faults, starts>>

\* UIRB::powerDown from its call to the end of the arming: the early return when
\* sleeping is not allowed, else the peripherals switched off, the edge sources
\* attached with interrupts disabled, and the loop's variables set
Sleep_powerDown ==
    /\ pc = "awake"
    /\ \E sleeptime_milliseconds \in SleepTimes, wakeupSource \in WakeupInterrupts,
          external \in {LOW, HIGH} :
          IF ~isSleepingAllowed(ram)
          THEN /\ pc' = "returned"
               /\ last' = Did("powerDown", sleeptime_milliseconds, FALSE)
               /\ sleep' = [sleep EXCEPT
                     !.sleeptime_milliseconds = sleeptime_milliseconds,
                     !.wakeupSource = wakeupSource,
                     !.atCall = [io3 |-> pins["PIN_USB_IO3"], ADCSRA |-> sleep.ADCSRA,
                                 ACSR |-> sleep.ACSR, REFS |-> sleep.REFS,
                                 isr_wakeup_button_flag_ |-> sleep.isr_wakeup_button_flag_,
                                 isr_wakeup_io3_flag_ |-> sleep.isr_wakeup_io3_flag_]]
               /\ UNCHANGED pins
          ELSE LET attachWake == attachWake_for(wakeupSource)
                   attachIO3 == attachIO3_for(ram, wakeupSource)
                   irOff == digitalWrite(pins, "PIN_IR_LED", LOW)
               IN  /\ pc' = "loop"
                   /\ last' = Did("powerDown", sleeptime_milliseconds, TRUE)
                   /\ pins' = IF attachIO3 THEN pinMode(irOff, "PIN_USB_IO3", INPUT_PULLUP)
                                           ELSE irOff
                   /\ sleep' = [sleep EXCEPT
                         !.sleeptime_milliseconds = sleeptime_milliseconds,
                         !.wakeupSource = wakeupSource,
                         !.atCall = [io3 |-> pins["PIN_USB_IO3"], ADCSRA |-> sleep.ADCSRA,
                                     ACSR |-> sleep.ACSR, REFS |-> sleep.REFS,
                                     isr_wakeup_button_flag_ |-> sleep.isr_wakeup_button_flag_,
                                     isr_wakeup_io3_flag_ |-> sleep.isr_wakeup_io3_flag_],
                         !.adcsra_old = sleep.ADCSRA,
                         !.acsr_old = sleep.ACSR,
                         !.oldAnalogRef = getAnalogReference(sleep.REFS),
                         !.REFS = setAnalogReference(sleep.REFS, AREF_EXTERNAL),
                         !.ADCSRA = bitClear(sleep.ADCSRA, ADEN),
                         !.ACSR = bitClear(sleep.ACSR, ACD),
                         !.I = FALSE,
                         !.attachWake = attachWake,
                         !.int0 = attachWake,
                         !.attachIO3 = attachIO3,
                         !.io3Mode_old = IF attachIO3 THEN getPinMode(irOff, "PIN_USB_IO3")
                                         ELSE INVALID_PIN_MODE,
                         !.io3State_old = IF attachIO3
                                          THEN digitalRead(irOff, "PIN_USB_IO3", external)
                                          ELSE LOW,
                         !.pcie = attachIO3,
                         !.remaining_time = sleeptime_milliseconds,
                         !.wdt_period = 0,
                         !.isr_wakeup_button_flag_internal_ = FALSE,
                         !.isr_wakeup_io3_flag_internal_ = FALSE,
                         !.pcint2_interrupt_flag = FALSE]
    /\ UNCHANGED wdt
    /\ SleepFrame

\* an interrupt that is enabled and pending while interrupts are globally enabled
\* runs before the next instruction of powerDown
InterruptDue ==
    sleep.I /\ ((sleep.int0 /\ sleep.intf0) \/ (sleep.pcie /\ sleep.pcif))

button_wakeup_isr_internal_only(s) ==
    [s EXCEPT !.isr_wakeup_button_flag_internal_ = TRUE]

button_wakeup_isr(s) ==
    [s EXCEPT !.isr_wakeup_button_flag_ = TRUE,
              !.isr_wakeup_button_flag_internal_ = TRUE]

usb_io3_wakeup_isr(s) ==
    [s EXCEPT !.isr_wakeup_io3_flag_ = TRUE,
              !.isr_wakeup_button_flag_internal_ = TRUE]

\* one pass of the loop up to sleep_cpu(), or the untimed branch up to sleep_cpu():
\* the watchdog armed for the chosen period, then cli(); sleep_enable(); sei();
\* sleep_cpu() (sei() takes effect only after the instruction that follows it)
Sleep_halt ==
    /\ pc = "loop"
    /\ ~InterruptDue
    /\ LET timed == sleep.sleeptime_milliseconds > 0
           period == wdt_period_for(sleep.remaining_time, sleep.wdt_period)
       IN  /\ wdt' = IF timed THEN "interval" ELSE wdt
           /\ sleep' = [sleep EXCEPT
                 !.wdt_period = IF timed THEN period ELSE @,
                 !.armed = IF timed THEN Append(@, wdt_intervals[period + 1]) ELSE @,
                 !.haltedFlagged = @ \/ sleep.isr_wakeup_button_flag_internal_
                                     \/ sleep.pcint2_interrupt_flag,
                 !.haltedUnarmed = @ \/ (~timed /\ ~sleep.int0 /\ ~sleep.pcie),
                 !.I = TRUE]
    /\ pc' = "halted"
    /\ UNCHANGED <<pins, last>>
    /\ SleepFrame

\* a falling edge on the wake button while its interrupt is attached
ButtonEdge ==
    /\ pc \in {"loop", "halted", "woken", "restore"}
    /\ sleep.int0
    /\ "button" \notin sleep.fired
    /\ sleep' = [sleep EXCEPT !.intf0 = TRUE, !.fired = @ \cup {"button"}]
    /\ UNCHANGED <<pc, wdt, pins, last>>
    /\ SleepFrame

\* a level change on IO3 while its pin-change interrupt is enabled
IO3Edge ==
    /\ pc \in {"loop", "halted", "woken", "restore"}
    /\ sleep.pcie
    /\ "io3" \notin sleep.fired
    /\ sleep' = [sleep EXCEPT !.pcif = TRUE, !.fired = @ \cup {"io3"}]
    /\ UNCHANGED <<pc, wdt, pins, last>>
    /\ SleepFrame

\* the processor leaves the halt when an interrupt is served
AfterInterrupt(s) ==
    IF pc = "halted"
    THEN [s EXCEPT !.edgeWakeAt = IF s.sleeptime_milliseconds > 0 THEN Len(s.armed) ELSE @]
    ELSE s

\* the external interrupt of the wake button: button_wakeup_isr
INT0_vect ==
    /\ sleep.I /\ sleep.int0 /\ sleep.intf0
    /\ sleep' = AfterInterrupt(button_wakeup_isr([sleep EXCEPT !.intf0 = FALSE]))
    /\ pc' = IF pc = "halted" THEN "woken" ELSE pc
    /\ UNCHANGED <<wdt, pins, last>>
    /\ SleepFrame

\* ISR(PCINT2_vect), served after a pending external interrupt
PCINT2_vect ==
    /\ sleep.I /\ sleep.pcie /\ sleep.pcif
    /\ ~(sleep.int0 /\ sleep.intf0)
    /\ sleep' = AfterInterrupt([sleep EXCEPT !.pcif = FALSE, !.pcint2_interrupt_flag = TRUE])
    /\ pc' = IF pc = "halted" THEN "woken" ELSE pc
    /\ UNCHANGED <<wdt, pins, last>>
    /\ SleepFrame

\* ISR(WDT_vect): the armed period ran out while the processor was halted
WDT_vect ==
    /\ pc = "halted"
    /\ wdt = "interval"
    /\ ~InterruptDue
    /\ wdt' = "off"
    /\ pc' = "woken"
    /\ UNCHANGED <<sleep, pins, last>>
    /\ SleepFrame

Sleep_after_wake_leaving_watchdog ==
    /\ pc = "woken"
    /\ ~InterruptDue
    /\ LET timed == sleep.sleeptime_milliseconds > 0
           left == remaining_time_after(sleep.remaining_time, sleep.wdt_period,
                       sleep.isr_wakeup_button_flag_internal_ \/ sleep.pcint2_interrupt_flag)
       IN  /\ sleep' = [sleep EXCEPT !.remaining_time = IF timed THEN left ELSE @]
           /\ pc' = IF timed /\ left > 0 THEN "loop" ELSE "restore"
    /\ UNCHANGED <<wdt, pins, last>>
    /\ SleepFrame

\* after sleep_cpu() returns: sleep_disable(); sei(); and in the loop wdt_disable()
\* and the time left; the loop is left when no time is left
Sleep_after_wake ==
    /\ pc = "woken"
    /\ ~InterruptDue
    /\ LET timed == sleep.sleeptime_milliseconds > 0
           left == remaining_time_after(sleep.remaining_time, sleep.wdt_period,
                       sleep.isr_wakeup_button_flag_internal_ \/ sleep.pcint2_interrupt_flag)
       IN  /\ wdt' = IF timed THEN "off" ELSE wdt
           /\ sleep' = [sleep EXCEPT !.remaining_time = IF timed THEN left ELSE @]
           /\ pc' = IF timed /\ left > 0 THEN "loop" ELSE "restore"
    /\ UNCHANGED <<pins, last>>
    /\ SleepFrame

\* reference selection after the restore at the end of powerDown
restoreAnalogReference(refs, oldAnalogRef) ==
    IF oldAnalogRef # INVALID_ANALOG_REF /\ oldAnalogRef # AREF_EXTERNAL
    THEN setAnalogReference(refs, oldAnalogRef)
    ELSE refs

\* the rest of powerDown: the IO3 handler run for a pin change, the edge sources
\* detached, the IO3 pin and the analog registers put back, then the callbacks
Sleep_finish ==
    /\ pc = "restore"
    /\ ~InterruptDue
    /\ LET s1 == IF sleep.pcint2_interrupt_flag THEN usb_io3_wakeup_isr(sleep) ELSE sleep
           buttonCalled == /\ s1.isr_wakeup_button_flag_internal_
                           /\ s1.button_wakeup_user_callback_
           io3Called == /\ s1.attachIO3
                        /\ s1.isr_wakeup_io3_flag_internal_
                        /\ s1.io3_wakeup_user_callback_
       IN  /\ pins' = IF s1.attachIO3 /\ s1.io3Mode_old # INVALID_PIN_MODE
                      THEN digitalWrite(pinMode(pins, "PIN_USB_IO3", s1.io3Mode_old),
                                        "PIN_USB_IO3", s1.io3State_old)
                      ELSE pins
           /\ sleep' = [s1 EXCEPT
                 !.I = TRUE,
                 !.int0 = FALSE,
                 !.pcie = FALSE,
                 !.ADCSRA = s1.adcsra_old,
                 !.ACSR = s1.acsr_old,
                 !.REFS = restoreAnalogReference(s1.REFS, s1.oldAnalogRef),
                 !.called = (IF buttonCalled THEN <<"button">> ELSE <<>>)
                            \o (IF io3Called THEN <<"io3">> ELSE <<>>),
                 !.isr_wakeup_button_flag_internal_ = FALSE,
                 !.isr_wakeup_io3_flag_internal_ = FALSE]
    /\ pc' = "returned"
    /\ UNCHANGED <<wdt, last>>
    /\ SleepFrame

NextSleep ==
    \/ Sleep_powerDown
    \/ Sleep_halt
    \/ ButtonEdge
    \/ IO3Edge
    \/ INT0_vect
    \/ PCINT2_vect
    \/ WDT_vect
    \/ Sleep_after_wake
    \/ Sleep_finish

SpecSleep == InitSleep /\ [][NextSleep]_vars

SleepTypeOK ==
    /\ pc \in {"awake", "loop", "halted", "woken", "restore", "returned"}
    /\ wdt \in {"off", "interval"}
    /\ sleep.REFS \in 0..3

\* powerDown is past its guard and has not returned
InPowerDown == pc \in {"loop", "halted", "woken", "restore"}

SleepCalled == last.op = "powerDown"

\* C21: while the sleep-allowed flag is false powerDown is a silent no-op for every
\* duration and wake source: the processor never gets past the guard (no halt, no
\* interval armed), no edge interrupt and no watchdog is armed, the IO3 pin, ADCSRA,
\* ACSR and the reference selection keep their values, no callback is invoked and
\* the public wake flags keep their values.
C21_SleepNotAllowedIsNoOp ==
    ~is_sleep_mode_allowed(ram) =>
        /\ ~InPowerDown
        /\ sleep.armed = <<>>
        /\ ~sleep.int0 /\ ~sleep.pcie
        /\ wdt = "off"
        /\ sleep.called = <<>>
        /\ pins = [DefaultPinStates(ResetPins) EXCEPT
                       !["PIN_USB_IO3"] = pins["PIN_USB_IO3"]]
        /\ SleepCalled =>
              /\ pc = "returned"
              /\ pins["PIN_USB_IO3"] = sleep.atCall.io3
              /\ sleep.ADCSRA = sleep.atCall.ADCSRA
              /\ sleep.ACSR = sleep.atCall.ACSR
              /\ sleep.REFS = sleep.atCall.REFS
              /\ sleep.isr_wakeup_button_flag_ = sleep.atCall.isr_wakeup_button_flag_
              /\ sleep.isr_wakeup_io3_flag_ = sleep.atCall.isr_wakeup_io3_flag_

C21_Witness ==
    /\ SleepCalled
    /\ pc = "returned"
    /\ ~is_sleep_mode_allowed(ram)
    /\ sleep.sleeptime_milliseconds = 10000
    /\ sleep.wakeupSource = "WAKE_BUTTON_AND_USB_IO3"
    /\ sleep.isr_wakeup_button_flag_

\* C22: while powerDown sleeps, the IO3 pin-change interrupt is armed only if the
\* requested source is USB_IO3 or both and the IO3-wake-allowed flag is true, the
\* button interrupt is armed exactly when the source is WAKE_BUTTON or both, and
\* with source NONE no edge source is armed.
C22_ArmedSourcesFollowRequest ==
    InPowerDown =>
        /\ sleep.pcie => /\ sleep.wakeupSource \in {"USB_IO3", "WAKE_BUTTON_AND_USB_IO3"}
                         /\ is_sleep_mode_io3_wakeup_allowed(ram)
        /\ sleep.int0 <=> sleep.wakeupSource \in {"WAKE_BUTTON", "WAKE_BUTTON_AND_USB_IO3"}
        /\ sleep.wakeupSource = "NONE" => ~sleep.int0 /\ ~sleep.pcie

C22_Witness ==
    /\ pc = "halted"
    /\ sleep.wakeupSource = "WAKE_BUTTON_AND_USB_IO3"
    /\ sleep.int0
    /\ sleep.pcie

RECURSIVE SumOfIntervals(_)
SumOfIntervals(intervals) ==
    IF intervals = <<>> THEN 0
    ELSE Head(intervals) + SumOfIntervals(Tail(intervals))

\* powerDown has left its loop
LoopLeft == SleepCalled /\ pc \in {"restore", "returned"}

\* C23: for a bounded sleep request of d > 0 ms during which no edge interrupt
\* fires, every interval powerDown armed is one of the ten watchdog steps and the
\* intervals sum to at least d and at most d + 8000 - 1; for d = 10000 the sum
\* lies in 10000..17999.
C23_IntervalsCoverRequest ==
    (LoopLeft /\ last.ret /\ sleep.sleeptime_milliseconds > 0 /\ sleep.fired = {}) =>
        LET d == sleep.sleeptime_milliseconds
            total == SumOfIntervals(sleep.armed)
        IN  /\ \A k \in 1..Len(sleep.armed) :
                  \E i \in 1..Len(wdt_intervals) : sleep.armed[k] = wdt_intervals[i]
            /\ total >= d
            /\ total <= d + 8000 - 1
            /\ d = 10000 => total \in 10000..17999

C23_Witness ==
    /\ LoopLeft
    /\ pc = "returned"
    /\ sleep.fired = {}
    /\ sleep.sleeptime_milliseconds = 8001
    /\ sleep.armed = <<8000, 8000>>

\* C24: during a bounded sleep, once an armed edge source (button or IO3) has woken
\* the processor from a timer interval, no further interval is armed: the time
\* left is set to zero and powerDown goes on to the restore.
C24_EdgeWakeEndsTheLoop ==
    sleep.edgeWakeAt # 0 =>
        /\ Len(sleep.armed) = sleep.edgeWakeAt
        /\ pc \in {"woken", "restore", "returned"}
        /\ pc # "woken" => sleep.remaining_time = 0

C24_Witness ==
    /\ pc = "returned"
    /\ sleep.sleeptime_milliseconds = 10000
    /\ sleep.edgeWakeAt = 1
    /\ sleep.armed = <<8000>>
    /\ sleep.fired = {"io3"}

\* C25: no wake event raised after the wake sources are armed is missed: for every
\* halt of a powerDown call, the first and the later timer intervals alike, the
\* processor never enters the halt while an edge-wake flag (the button handler's
\* internal flag or the pin-change flag) raised since the arming is already set.
C25_NoHaltWithWakeFlagSet == ~sleep.haltedFlagged

\* powerDown has returned after sleeping
SleepReturned == SleepCalled /\ last.ret /\ pc = "returned"

\* both user callbacks are registered
CallbacksRegistered ==
    sleep.button_wakeup_user_callback_ /\ sleep.io3_wakeup_user_callback_

\* C26: after waking, powerDown invokes the registered button callback if and only
\* if the button source fired during this sleep cycle and the registered IO3
\* callback if and only if the IO3 source was armed and fired during this cycle;
\* each at most once, the button callback before the IO3 callback, with interrupts
\* enabled and after the edge sources are detached.
C26_CallbacksFollowFiredSources ==
    (SleepReturned /\ CallbacksRegistered) =>
        /\ (\E k \in 1..Len(sleep.called) : sleep.called[k] = "button")
              <=> "button" \in sleep.fired
        /\ (\E k \in 1..Len(sleep.called) : sleep.called[k] = "io3")
              <=> (sleep.attachIO3 /\ "io3" \in sleep.fired)
        /\ sleep.called \in {<<>>, <<"button">>, <<"io3">>, <<"button", "io3">>}
        /\ sleep.I /\ ~sleep.int0 /\ ~sleep.pcie

\* the application had cleared both public wake flags before the call
FlagsClearAtCall ==
    ~sleep.atCall.isr_wakeup_button_flag_ /\ ~sleep.atCall.isr_wakeup_io3_flag_

C28_AnalogRegistersRestored ==
    SleepReturned =>
        /\ sleep.ADCSRA = sleep.atCall.ADCSRA
        /\ sleep.ACSR = sleep.atCall.ACSR
        /\ sleep.REFS = sleep.atCall.REFS

\* C29: when powerDown armed the IO3 wake source, on return the IO3 pin has the
\* configuration it had before the call, the same pin mode and the same
\* output/pull-up latch value, for every prior mode and external level.
C29_IO3PinRestored ==
    (SleepReturned /\ sleep.attachIO3) =>
        /\ getPinMode(pins, "PIN_USB_IO3") =
               getPinMode([pins EXCEPT !["PIN_USB_IO3"] = sleep.atCall.io3], "PIN_USB_IO3")
        /\ pins["PIN_USB_IO3"] = sleep.atCall.io3

\* C30: sampling the charger-control pin voltage (get_raw_prog_adc_sample, reached
\* from getProgVoltageMilivolts and PowerInfoData::update) leaves PIN_PROG in the
\* digital mode and output level it had before the sampling.
C30_SamplingRestoresProgPin ==
    [][(nops' = nops + 1 /\ last'.op = "update") =>
           pins'["PIN_PROG"] = pins["PIN_PROG"]]_vars

\* the request names an edge source that powerDown does arm
NamesArmableSource ==
    \/ sleep.wakeupSource \in {"WAKE_BUTTON", "WAKE_BUTTON_AND_USB_IO3"}
    \/ sleep.wakeupSource = "USB_IO3" /\ is_sleep_mode_io3_wakeup_allowed(ram)

\* C36 as claimed: powerDown never halts the processor with neither a timer
\* interval nor any edge wake source armed, for every duration, every requested
\* source and every value of the IO3-wake-allowed flag.
C36_NeverHaltsUnarmed ==
    pc = "halted" => (wdt = "interval" \/ sleep.int0 \/ sleep.pcie)

\* C36: powerDown never halts the processor with neither a timer interval nor any
\* edge wake source armed when the request is bounded, or names the button, or
\* names IO3 while the IO3-wake-allowed flag is true; an unbounded request for any
\* other source halts with nothing armed.
C36_HaltsUnarmedOnlyWithoutSource ==
    /\ (pc = "halted" /\ (sleep.sleeptime_milliseconds > 0 \/ NamesArmableSource)) =>
           (wdt = "interval" \/ sleep.int0 \/ sleep.pcie)
    /\ (pc = "halted" /\ sleep.sleeptime_milliseconds = 0 /\ ~NamesArmableSource) =>
           (wdt = "off" /\ ~sleep.int0 /\ ~sleep.pcie)
    /\ sleep.haltedUnarmed => (sleep.sleeptime_milliseconds = 0 /\ ~NamesArmableSource)

C36_Witness ==
    /\ pc = "halted"
    /\ sleep.sleeptime_milliseconds = 0
    /\ sleep.wakeupSource = "WAKE_BUTTON_AND_USB_IO3"
    /\ ~is_sleep_mode_io3_wakeup_allowed(ram)
    /\ sleep.int0
    /\ ~sleep.pcie
    /\ wdt = "off"

\* the scheduling of powerDown: the processor executes its next instruction, a
\* pending enabled interrupt is served, and an armed watchdog period runs out
SleepFairness ==
    /\ WF_vars(Sleep_halt)
    /\ WF_vars(INT0_vect)
    /\ WF_vars(PCINT2_vect)
    /\ WF_vars(WDT_vect)
    /\ WF_vars(Sleep_after_wake)
    /\ WF_vars(Sleep_finish)

SpecSleepFair == SpecSleep /\ SleepFairness

\* C37: every bounded powerDown call that gets past its guard eventually returns,
\* provided each armed timer interval eventually expires; the time left strictly
\* decreases on every wake inside the loop.
C37_BoundedSleepReturns ==
    /\ (SleepCalled /\ last.ret /\ sleep.sleeptime_milliseconds > 0) ~> (pc = "returned")
    /\ [][(pc = "woken" /\ pc' # "woken" /\ sleep.sleeptime_milliseconds > 0) =>
              sleep'.remaining_time < sleep.remaining_time]_vars

C37_Witness ==
    /\ SleepReturned
    /\ sleep.sleeptime_milliseconds = 10000
    /\ sleep.armed = <<8000, 2000>>
    /\ sleep.fired = {}

\* C38: whenever powerDown returns, whichever source caused the wake, every
\* interrupt it armed is disabled again (button interrupt detached, IO3 pin-change
\* interrupt masked) and the watchdog timer is disabled, so no wake handler is due.
C38_NothingArmedOnReturn ==
    (SleepCalled /\ pc = "returned") =>
        /\ ~sleep.int0
        /\ ~sleep.pcie
        /\ wdt = "off"
        /\ ~InterruptDue

C38_Witness ==
    /\ SleepReturned
    /\ sleep.attachWake /\ sleep.attachIO3
    /\ sleep.sleeptime_milliseconds = 8001
    /\ sleep.edgeWakeAt = 2
    /\ sleep.fired = {"button", "io3"}
    /\ ~sleep.int0 /\ ~sleep.pcie
    /\ wdt = "off"

\* the largest watchdog step that does not exceed the time left, 16 ms when the
\* time left is below the smallest step
LargestStepWithin(remaining_time) ==
    LET within == { i \in 1..Len(wdt_intervals) : wdt_intervals[i] <= remaining_time }
    IN  IF within = {} THEN wdt_intervals[1]
        ELSE wdt_intervals[CHOOSE i \in within : \A j \in within : j <= i]

\* C39: in each iteration of a bounded sleep the armed timer interval is the
\* largest step that is less than or equal to the time left, and the 16 ms step
\* when the time left is below 16 ms; hence with no edge firing the armed
\* intervals exceed the request by less than 16 ms.
C39_LargestFittingStepArmed ==
    /\ (pc = "halted" /\ sleep.sleeptime_milliseconds > 0) =>
           sleep.armed[Len(sleep.armed)] = LargestStepWithin(sleep.remaining_time)
    /\ (LoopLeft /\ last.ret /\ sleep.sleeptime_milliseconds > 0 /\ sleep.fired = {}) =>
           SumOfIntervals(sleep.armed) < sleep.sleeptime_milliseconds + 16

\* PowerInfoData::isValid
isValid(p) ==
    /\ p.supply_voltage_milivolts_ # INVALID_VOLTAGE_MILIVOLTS
    /\ p.prog_voltage_milivolts_ # INVALID_VOLTAGE_MILIVOLTS
    /\ p.charging_current_miliamps_ # INVALID_CURRENT_MILIAMPS
    /\ p.prog_pin_mode_ # INVALID_PIN_MODE

\* C33: in every state reached by any sequence of update calls, if isValid() is
\* true then the cached charger state is the classification of the cached supply
\* voltage, pin voltage and current, the cached battery state is the derivation
\* from the cached charger state and supply voltage, and neither is ERROR.
C33_ValidCacheIsClassified ==
    isValid(power) =>
        /\ power.estimated_charger_state_ = get_estimated_charger_state(power)
        /\ power.estimated_battery_state_ = get_estimated_battery_state(power)
        /\ power.estimated_charger_state_ # "ERROR"
        /\ power.estimated_battery_state_ # "ERROR"

C33_Witness ==
    /\ last.op = "update"
    /\ ~last.ret
    /\ last.arg = 0
    /\ isValid(power)
    /\ isValid(last.pre.power)
    /\ power.estimated_charger_state_ # "ERROR"

\* C32: for the charger resistor and for the board serial number a value accepted
\* by the setter is reported by the getter: after set_charger_prog_resistor_ohms(v)
\* returns true get_charger_prog_resistor_ohms() returns v, and after
\* set_uirb_board_serial_number(n) returns true get_uirb_board_serial_number()
\* returns n, from every prior record.
C32_AcceptedValueIsReadBack ==
    /\ (last.op = "set_charger_prog_resistor_ohms" /\ last.ret)
          => get_charger_prog_resistor_ohms(ram) = last.arg
    /\ (last.op = "set_uirb_board_serial_number" /\ last.ret)
          => get_uirb_board_serial_number(ram) = last.arg

\* C34: for a plain-input pin, every resistor the store reports as valid
\* (3334..65535 ohms) and every valid 16-bit pin voltage, the derived current is
\* the untruncated quotient result, at most 329 mA, and is neither the
\* indeterminate sentinel (65534) nor the invalid sentinel (65535).
C34_CurrentFitsSixteenBits ==
    ( /\ CurrentDerived
      /\ PlainInput
      /\ last.arg > CHARGER_PROG_RESISTANCE_MIN
      /\ power.prog_voltage_milivolts_ # INVALID_VOLTAGE_MILIVOLTS ) =>
        LET inside == /\ power.prog_voltage_milivolts_ <= PROG_CC_CHARGE_VOLTAGE_MAX_MV
                      /\ power.prog_voltage_milivolts_ >= PROG_FLOAT_VOLTAGE_MAX_MV
            quotient == (power.prog_voltage_milivolts_ * 1000) \div last.arg
            exact == IF ~inside THEN 0 ELSE IF quotient = 0 THEN 1 ELSE quotient
        IN  /\ power.charging_current_miliamps_ = exact
            /\ power.charging_current_miliamps_ <= 329
            /\ power.charging_current_miliamps_ # UNKNOWN_CURRENT_MILIAMPS
            /\ power.charging_current_miliamps_ # INVALID_CURRENT_MILIAMPS

C34_Witness ==
    /\ CurrentDerived
    /\ PlainInput
    /\ last.arg = 3334
    /\ power.prog_voltage_milivolts_ = 1100
    /\ power.charging_current_miliamps_ = 329


(***************************************************************************)
(* Low-battery notification: UIRB::getPowerInfo and                        *)
(* UIRB::notifyStatusLowBattery on the status indicator pin                *)
(***************************************************************************)
\* the measurements of one getPowerInfo: a healthy and an empty battery, PROG idle or driven
NotifyEnvSamples ==
    [ avcc_raw : {100, 274, 332},
      sample_1v1 : {5, 1023},
      sample_avcc : {260},
      avcc_raw2 : {274},
      external : {0, 1} ]

\* the configurations the application may have left PIN_STAT_LED in
StatLedPinStates == { [ddr |-> d, port |-> p] : d \in {0, 1}, p \in {0, 1} }

notifyStatusLowBattery_leaving_output_low(ps, external) ==
    LET p1 == IF getPinMode(ps, "PIN_STAT_LED") # OUTPUT THEN pinMode(ps, "PIN_STAT_LED", OUTPUT) ELSE ps
    IN  digitalWrite(p1, "PIN_STAT_LED", LOW)

\* UIRB::notifyStatusLowBattery: the pins after the Morse "L" and the restore
notifyStatusLowBattery(ps, external) ==
    LET oldMode == getPinMode(ps, "PIN_STAT_LED")
        oldState == digitalRead(ps, "PIN_STAT_LED", external)
        p1 == IF oldMode # OUTPUT THEN pinMode(ps, "PIN_STAT_LED", OUTPUT) ELSE ps
        p2 == digitalWrite(p1, "PIN_STAT_LED", LOW)
        dot == digitalWrite(digitalWrite(p2, "PIN_STAT_LED", HIGH), "PIN_STAT_LED", LOW)
        dash == digitalWrite(digitalWrite(dot, "PIN_STAT_LED", HIGH), "PIN_STAT_LED", LOW)
        dot2 == digitalWrite(digitalWrite(dash, "PIN_STAT_LED", HIGH), "PIN_STAT_LED", LOW)
        dot3 == digitalWrite(digitalWrite(dot2, "PIN_STAT_LED", HIGH), "PIN_STAT_LED", LOW)
    IN  IF oldMode # INVALID_PIN_MODE
        THEN LET p3 == pinMode(dot3, "PIN_STAT_LED", oldMode)
             IN  IF oldMode = OUTPUT
                 THEN digitalWrite(p3, "PIN_STAT_LED", IF oldState = 0 THEN LOW ELSE HIGH)
                 ELSE p3
        ELSE dot3

isBatteryLow_flashing_while_charging(p, flashSTATOnLowBattery) ==
    IF p.supply_voltage_milivolts_ = INVALID_VOLTAGE_MILIVOLTS THEN FALSE
    ELSE p.supply_voltage_milivolts_ < BATTERY_EMPTY_SUPPLY_VOLTAGE_MIN_MV /\ flashSTATOnLowBattery

\* PowerInfoData::isBatteryLow(flash): whether it calls UIRB::notifyStatusLowBattery
isBatteryLow_flashing(p, flashSTATOnLowBattery) ==
    IF p.supply_voltage_milivolts_ = INVALID_VOLTAGE_MILIVOLTS THEN FALSE
    ELSE LET batteryLow == p.supply_voltage_milivolts_ < BATTERY_EMPTY_SUPPLY_VOLTAGE_MIN_MV
         IN  batteryLow /\ flashSTATOnLowBattery /\ ~isBatteryCharging(p)

\* the device after its constructor, initialized or not, the status pin as the application left it
InitNotify ==
    /\ pc = "monitor"
    /\ \E result \in {"SUCCESS", "ERROR_EEPROM_CHARGER_PROG_RESISTANCE_INVALID"} :
          /\ initializationResult_ = result
          /\ eeprom = IF result = "SUCCESS" THEN FactoryRecord
                      ELSE [FactoryRecord EXCEPT !.charger_prog_resistor_ohms = 3333]
    /\ ram = eeprom
    /\ wdt = "off"
    /\ \E led \in StatLedPinStates :
          pins = [DefaultPinStates(ResetPins) EXCEPT !["PIN_STAT_LED"] = led]
    /\ sleep = Awake
    /\ power = InitPower
    /\ last = Did("none", 0, FALSE)
    /\ startEeprom = eeprom
    /\ ctorLog = <<>>
    /\ saved = NeverSaved
    /\ nops = 0
    /\ faults = 0
    /\ starts = 1

NotifyFrame ==
    UNCHANGED <<pc, eeprom, ram, initializationResult_, wdt, sleep, startEeprom, ctorLog,
                saved, nops, faults, starts>>

\* UIRB::getPowerInfo(samples, flashSTATOnLowBattery): update, then isBatteryLow(flash)
getPowerInfo ==
    /\ pc = "monitor"
    /\ \E samples \in {0, DEFAULT_SAMPLES}, flashSTATOnLowBattery \in BOOLEAN,
          e \in NotifyEnvSamples :
          LET r == PowerInfoData_update(power, ram, pins, initializationResult_, samples, e)
              notified == isBatteryLow_flashing(r.power, flashSTATOnLowBattery)
          IN  /\ power' = r.power
              /\ pins' = IF notified THEN notifyStatusLowBattery(r.pins, e.external) ELSE r.pins
              /\ last' = Did("getPowerInfo", BoolBit(flashSTATOnLowBattery), notified)
    /\ NotifyFrame

\* the application calls the public static UIRB::notifyStatusLowBattery() itself
UIRB_notifyStatusLowBattery ==
    /\ pc = "monitor"
    /\ \E external \in {0, 1} : pins' = notifyStatusLowBattery(pins, external)
    /\ last' = Did("notifyStatusLowBattery", 0, TRUE)
    /\ UNCHANGED power
    /\ NotifyFrame

\* the application reconfigures the status pin between calls
Application_pinMode ==
    /\ pc = "monitor"
    /\ \E led \in StatLedPinStates : pins' = [pins EXCEPT !["PIN_STAT_LED"] = led]
    /\ last' = Did("pinMode", 0, TRUE)
    /\ UNCHANGED power
    /\ NotifyFrame

NextNotify == getPowerInfo \/ UIRB_notifyStatusLowBattery \/ Application_pinMode

SpecNotify == InitNotify /\ [][NextNotify]_vars

\* the status pin is configured the same way in both pin maps
SameStatLed(before, after) ==
    /\ getPinMode(after, "PIN_STAT_LED") = getPinMode(before, "PIN_STAT_LED")
    /\ getPinMode(before, "PIN_STAT_LED") = OUTPUT
          => after["PIN_STAT_LED"].port = before["PIN_STAT_LED"].port

\* C31: every step in which notifyStatusLowBattery ran, called directly or from
\* getPowerInfo, leaves the status pin in the mode it had before the step, and
\* when that mode was output at the level it drove before the step
C31_StatusPinRestored ==
    [][(last'.op = "notifyStatusLowBattery" \/ (last'.op = "getPowerInfo" /\ last'.ret))
          => SameStatLed(pins, pins')]_vars

C31_Witness ==
    /\ last.op = "notifyStatusLowBattery"
    /\ getPinMode(pins, "PIN_STAT_LED") = OUTPUT
    /\ pins["PIN_STAT_LED"].port = 1

====
